---- MODULE Spec2Model ----
(***************************************************************************)
(* A model of the SME contract engine (backend/analysis.py and the HTTP    *)
(* surface of backend/main.py).  Contract text is modelled as real         *)
(* strings: substring tests, lower-casing, line splitting and the regular  *)
(* expressions of the source are computed character by character.          *)
(***************************************************************************)
EXTENDS Integers, Sequences, FiniteSets, TLC

VARIABLES
    \* split_into_clauses (analysis.py:54-106), one loop iteration per step
    ppc, plines, pidx, clauses, current, current_subs,
    \* the per-clause body of analyze_contract's loop (analysis.py:391-440)
    cpc, cheading, cbody, cintent, crule, risk, flags, tmatches, csuggestion,
    \* contract_level_risk_score and its interpretation (analysis.py:338-349, 453-459)
    spc, clause_risks, score, interpretation,
    \* the HTTP surface (main.py:26-32, 91-124)
    clock, audit_file, served,
    \* calls of analyze_contract in flight and the locals of each invocation
    \* (analysis.py:352-568)
    calls, frames,
    \* the tokenizer backends of nlp_utils.py (lines 5-6) and the calls of
    \* get_sentences so far
    _nlp, _nltk_ready, sentence_calls

vars == <<ppc, plines, pidx, clauses, current, current_subs,
          cpc, cheading, cbody, cintent, crule, risk, flags, tmatches, csuggestion,
          spc, clause_risks, score, interpretation,
          clock, audit_file, served,
          calls, frames,
          _nlp, _nltk_ready, sentence_calls>>

parserVars == <<ppc, plines, pidx, clauses, current, current_subs>>
clauseVars == <<cpc, cheading, cbody, cintent, crule, risk, flags, tmatches, csuggestion>>
scoreVars == <<spc, clause_risks, score, interpretation>>
serverVars == <<clock, audit_file, served>>
callVars == <<calls, frames>>
nlpVars == <<_nlp, _nltk_ready, sentence_calls>>

-----------------------------------------------------------------------------
(* Python str operations *)

Char(s, i) == SubSeq(s, i, i)

UpperAlpha == "ABCDEFGHIJKLMNOPQRSTUVWXYZ"
LowerAlpha == "abcdefghijklmnopqrstuvwxyz"
Digits == "0123456789"

CharsOf(s) == {Char(s, i) : i \in 1..Len(s)}

UpperSet == CharsOf(UpperAlpha)
LowerSet == CharsOf(LowerAlpha)
DigitSet == CharsOf(Digits)
LetterSet == UpperSet \cup LowerSet
\* \s (the vertical tab has no TLA+ string escape and is left out)
SpaceSet == {" ", "\t", "\n", "\r", "\f"}
\* \w
WordSet == LetterSet \cup DigitSet \cup {"_"}

\* the positions a..b in increasing order
Range(a, b) == [k \in 1..(b - a + 1) |-> a + k - 1]

\* Op applied to the value of v; TLC evaluates v once, however often Op uses it
With(v, Op(_)) == CHOOSE r \in {Op(x) : x \in {v}} : TRUE

LowerChar(c) ==
    IF c \in UpperSet
    THEN Char(LowerAlpha, CHOOSE i \in 1..26 : Char(UpperAlpha, i) = c)
    ELSE c

\* str.lower(), by halves to keep the evaluation shallow
RECURSIVE Lower(_)
Lower(s) ==
    With(s, LAMBDA v :
        IF Len(v) = 0 THEN ""
        ELSE IF Len(v) = 1 THEN LowerChar(v)
        ELSE LET h == Len(v) \div 2
             IN  Lower(SubSeq(v, 1, h)) \o Lower(SubSeq(v, h + 1, Len(v))))

\* Python's `k in s` on strings
Contains(s, k) ==
    With(s, LAMBDA v : \E i \in 1..(Len(v) - Len(k) + 1) : SubSeq(v, i, i + Len(k) - 1) = k)

RECURSIVE LStrip(_)
LStrip(s) ==
    With(s, LAMBDA v : IF v # "" /\ Head(v) \in SpaceSet THEN LStrip(Tail(v)) ELSE v)

RECURSIVE RStrip(_)
RStrip(s) ==
    With(s, LAMBDA v :
        IF v # "" /\ Char(v, Len(v)) \in SpaceSet
        THEN RStrip(SubSeq(v, 1, Len(v) - 1))
        ELSE v)

Strip(s) == LStrip(RStrip(s))

\* str.splitlines(): a line ends at \n, \r\n, \r or \f; there is no empty
\* last line after a final line end
SplitLines(s) ==
    With(s, LAMBDA v :
        LET n == Len(v)
            IsBreak(i) == \/ Char(v, i) \in {"\n", "\f"}
                          \/ (Char(v, i) = "\r" /\ ~(i < n /\ Char(v, i + 1) = "\n"))
        IN  With(SelectSeq(Range(1, n), IsBreak), LAMBDA breaks :
                LET count == IF breaks = <<>> THEN (IF n = 0 THEN 0 ELSE 1)
                             ELSE IF breaks[Len(breaks)] = n THEN Len(breaks)
                             ELSE Len(breaks) + 1
                    StartOf(k) == IF k = 1 THEN 1 ELSE breaks[k - 1] + 1
                    EndOf(k) ==
                        IF k > Len(breaks) THEN n
                        ELSE IF Char(v, breaks[k]) = "\n" /\ breaks[k] > StartOf(k)
                                /\ Char(v, breaks[k] - 1) = "\r"
                        THEN breaks[k] - 2
                        ELSE breaks[k] - 1
                IN  [k \in 1..count |-> SubSeq(v, StartOf(k), EndOf(k))]))

\* sep.join(parts), by halves
RECURSIVE Join(_, _)
Join(sep, parts) ==
    With(parts, LAMBDA ps :
        IF ps = <<>> THEN ""
        ELSE IF Len(ps) = 1 THEN ps[1]
        ELSE LET h == Len(ps) \div 2
             IN  Join(sep, SubSeq(ps, 1, h)) \o sep \o Join(sep, SubSeq(ps, h + 1, Len(ps))))

\* concatenation of a sequence of sequences, by halves
RECURSIVE Flatten(_)
Flatten(ss) ==
    With(ss, LAMBDA v :
        IF v = <<>> THEN <<>>
        ELSE IF Len(v) = 1 THEN v[1]
        ELSE LET h == Len(v) \div 2
             IN  Flatten(SubSeq(v, 1, h)) \o Flatten(SubSeq(v, h + 1, Len(v))))

-----------------------------------------------------------------------------
(* Python's re: a backtracking matcher.  Ends(re, s, i) is the sequence of  *)
(* positions at which a match of re starting at position i of s can end, in *)
(* the order in which the backtracking engine tries them.                   *)

Lit(k) == [t |-> "lit", k |-> k]
Set(cs) == [t |-> "set", cs |-> cs]
NotSet(cs) == [t |-> "nset", cs |-> cs]
Cat(rs) == [t |-> "cat", rs |-> rs]
Alt(rs) == [t |-> "alt", rs |-> rs]
\* r{lo,hi}; hi = -1 is unbounded
Rep(r, lo, hi) == [t |-> "rep", r |-> r, lo |-> lo, hi |-> hi, greedy |-> TRUE]
LazyRep(r, lo, hi) == [t |-> "rep", r |-> r, lo |-> lo, hi |-> hi, greedy |-> FALSE]
Eol == [t |-> "eol"]
WordB == [t |-> "wordb"]

Opt(r) == Rep(r, 0, 1)
Plus(r) == Rep(r, 1, -1)
Star(r) == Rep(r, 0, -1)
AnyOf(ks) == Alt([i \in 1..Len(ks) |-> Lit(ks[i])])

IsWordAt(s, i) == i >= 1 /\ i <= Len(s) /\ Char(s, i) \in WordSet

\* whether the one-character pattern re ("set" or "nset") accepts s[i]
Accepts(re, s, i) == IF re.t = "set" THEN Char(s, i) \in re.cs ELSE Char(s, i) \notin re.cs

\* the number of characters from position i on that the one-character
\* pattern re accepts in a row
RunLength(re, s, i) ==
    With(SelectSeq(Range(i, Len(s)), LAMBDA j : ~Accepts(re, s, j)), LAMBDA stops :
        IF stops = <<>> THEN Len(s) + 1 - i ELSE stops[1] - i)

RECURSIVE Ends(_, _, _), CatEnds(_, _, _, _), RepEnds(_, _, _, _)
Ends(re, s, i) ==
    CASE re.t = "lit" ->
           IF i + Len(re.k) - 1 <= Len(s) /\ SubSeq(s, i, i + Len(re.k) - 1) = re.k
           THEN <<i + Len(re.k)>> ELSE <<>>
      [] re.t = "set" ->
           IF i <= Len(s) /\ Char(s, i) \in re.cs THEN <<i + 1>> ELSE <<>>
      [] re.t = "nset" ->
           IF i <= Len(s) /\ Char(s, i) \notin re.cs THEN <<i + 1>> ELSE <<>>
      [] re.t = "cat" -> CatEnds(re.rs, s, <<i>>, 1)
      [] re.t = "alt" -> Flatten([j \in 1..Len(re.rs) |-> Ends(re.rs[j], s, i)])
      [] re.t = "rep" ->
           IF re.r.t \in {"set", "nset"}
           THEN \* a repeated character class: every length from lo to the run
                \* length (capped by hi), longest first when greedy
                LET run == RunLength(re.r, s, i)
                    top == IF re.hi # -1 /\ re.hi < run THEN re.hi ELSE run
                    n == top - re.lo + 1
                IN  IF n <= 0 THEN <<>>
                    ELSE IF re.greedy THEN [k \in 1..n |-> i + top - k + 1]
                    ELSE [k \in 1..n |-> i + re.lo + k - 1]
           ELSE RepEnds(re, s, i, 0)
      [] re.t = "eol" ->
           IF i = Len(s) + 1 \/ (i = Len(s) /\ Char(s, i) = "\n") THEN <<i>> ELSE <<>>
      [] re.t = "wordb" ->
           IF IsWordAt(s, i - 1) # IsWordAt(s, i) THEN <<i>> ELSE <<>>

CatEnds(rs, s, starts, j) ==
    IF j > Len(rs) THEN starts
    ELSE With(Flatten([n \in 1..Len(starts) |-> Ends(rs[j], s, starts[n])]),
              LAMBDA next : CatEnds(rs, s, next, j + 1))

RepEnds(re, s, i, count) ==
    LET more == IF re.hi # -1 /\ count >= re.hi THEN <<>>
                ELSE With(SelectSeq(Ends(re.r, s, i), LAMBDA e : e > i), LAMBDA once :
                         Flatten([n \in 1..Len(once) |-> RepEnds(re, s, once[n], count + 1)]))
        stop == IF count >= re.lo THEN <<i>> ELSE <<>>
    IN  IF re.greedy THEN more \o stop ELSE stop \o more

\* pattern.match(s): anchored at the start of s
Matches(re, s) == With(s, LAMBDA v : Ends(re, v, 1) # <<>>)

\* the start positions, in increasing order, at which re matches
MatchStarts(re, s) ==
    With(s, LAMBDA v : SelectSeq(Range(1, Len(v) + 1), LAMBDA i : Ends(re, v, i) # <<>>))

\* re.search(s): whether re matches somewhere
Found(re, s) == MatchStarts(re, s) # <<>>

\* re.finditer: the non-overlapping matches <<start, end>>, left to right;
\* starts are the positions not yet looked at where a match exists
RECURSIVE IterFrom(_, _, _)
IterFrom(re, s, starts) ==
    With(starts, LAMBDA st :
        IF st = <<>> THEN <<>>
        ELSE With(Head(Ends(re, s, st[1])), LAMBDA e :
                 LET b == st[1]
                     next == IF e > b THEN e ELSE e + 1
                 IN  <<<<b, e>>>> \o IterFrom(re, s, SelectSeq(st, LAMBDA p : p >= next))))

FindIter(re, s) == With(s, LAMBDA v : IterFrom(re, v, MatchStarts(re, v)))

\* the text of each match (m.group(0)), cut from src (s or its original case)
MatchTexts(re, s, src) ==
    With(FindIter(re, s), LAMBDA ms :
        [n \in 1..Len(ms) |-> SubSeq(src, ms[n][1], ms[n][2] - 1)])

\* a pattern pre(grp)post with one capturing group: <<start of the group, end
\* of the group, end of the match>> in the first way the engine finds to
\* match at position i, or <<>>
GroupAt(pre, grp, post, s, i) ==
    LET Closes(g) == Ends(post, s, g) # <<>>
        Opens(p) == SelectSeq(Ends(grp, s, p), Closes) # <<>>
    IN  With(SelectSeq(Ends(pre, s, i), Opens), LAMBDA ps :
            IF ps = <<>> THEN <<>>
            ELSE With(SelectSeq(Ends(grp, s, ps[1]), Closes), LAMBDA gs :
                     <<ps[1], gs[1], Ends(post, s, gs[1])[1]>>))

RECURSIVE GroupIterFrom(_, _, _, _, _, _)
GroupIterFrom(pre, grp, post, s, src, starts) ==
    With(starts, LAMBDA st :
        IF st = <<>> THEN <<>>
        ELSE With(GroupAt(pre, grp, post, s, st[1]), LAMBDA g :
                 LET b == st[1]
                     next == IF g[3] > b THEN g[3] ELSE g[3] + 1
                 IN  <<SubSeq(src, g[1], g[2] - 1)>>
                     \o GroupIterFrom(pre, grp, post, s, src,
                                      SelectSeq(st, LAMBDA p : p >= next))))

\* finditer / findall over pre(grp)post: the text of group 1 of each match
GroupTexts(pre, grp, post, s, src) ==
    With(s, LAMBDA v :
        GroupIterFrom(pre, grp, post, v, src,
                      SelectSeq(Range(1, Len(v) + 1),
                                LAMBDA i : GroupAt(pre, grp, post, v, i) # <<>>)))

-----------------------------------------------------------------------------
(* split_into_clauses: the structural parser *)

\* ^(\d+)[\)\.]?\s+|^(i+|v+|x+)[\)\.]?\s+|^[A-Z][A-Z0-9\s\-,]{4,}$
top_level ==
    Alt(<<Cat(<<Plus(Set(DigitSet)), Opt(Set({")", "."})), Plus(Set(SpaceSet))>>),
          Cat(<<Alt(<<Plus(Lit("i")), Plus(Lit("v")), Plus(Lit("x"))>>),
                Opt(Set({")", "."})), Plus(Set(SpaceSet))>>),
          Cat(<<Set(UpperSet),
                Rep(Set(UpperSet \cup DigitSet \cup SpaceSet \cup {"-", ","}), 4, -1),
                Eol>>)>>)

\* ^(\d+\.\d+(?:\.\d+)*)[\)\.]?\s+
sub_level ==
    Cat(<<Plus(Set(DigitSet)), Lit("."), Plus(Set(DigitSet)),
          Star(Cat(<<Lit("."), Plus(Set(DigitSet))>>)),
          Opt(Set({")", "."})), Plus(Set(SpaceSet))>>)

\* lines = [l.rstrip() for l in text.splitlines()]
LinesOf(text) ==
    LET ls == SplitLines(text) IN [i \in 1..Len(ls) |-> RStrip(ls[i])]

\* the parser's working state: clauses, current (<<>> is None), current_subs
ParserStart == [clauses |-> <<>>, current |-> <<>>, subs |-> <<>>]

\* a faulty accumulation: b = stripped, the lines before are lost
AppendLineReplacing(b, stripped) == stripped

\* b += ("\n" if b else "") + stripped
AppendLine(b, stripped) == b \o (IF b # "" THEN "\n" ELSE "") \o stripped

\* a faulty flush: a clause that has no body is dropped
flush_current_with_body(ps) ==
    [clauses |-> IF ps.current # <<>> /\ ps.current[1].body # ""
                 THEN Append(ps.clauses, [heading |-> ps.current[1].heading,
                                          body |-> ps.current[1].body,
                                          sub_clauses |-> ps.subs])
                 ELSE ps.clauses,
     current |-> <<>>,
     subs |-> <<>>]

flush_current(ps) ==
    [clauses |-> IF ps.current # <<>>
                 THEN Append(ps.clauses, [heading |-> ps.current[1].heading,
                                          body |-> ps.current[1].body,
                                          sub_clauses |-> ps.subs])
                 ELSE ps.clauses,
     current |-> <<>>,
     subs |-> <<>>]

\* a faulty iteration: without `if not stripped: continue`
ParseLineKeepingBlank(ps, line) ==
    LET stripped == Strip(line)
        sub_m == Matches(sub_level, stripped)
        top_m == Matches(top_level, stripped)
    IN  IF sub_m /\ ps.current # <<>>
        THEN [ps EXCEPT !.subs = Append(@, [heading |-> stripped, body |-> ""])]
        ELSE IF top_m
        THEN [flush_current(ps) EXCEPT
                !.current = <<[heading |-> stripped, body |-> ""]>>]
        ELSE IF ps.current = <<>>
        THEN [ps EXCEPT !.current = <<[heading |-> "Preamble", body |-> stripped]>>,
                        !.subs = <<>>]
        ELSE IF ps.subs # <<>>
        THEN [ps EXCEPT !.subs[Len(ps.subs)].body = AppendLine(@, stripped)]
        ELSE [ps EXCEPT !.current[1].body = AppendLine(@, stripped)]

\* a faulty iteration: a sub-level line under the Preamble is a plain line
ParseLineSubUnderHeading(ps, line) ==
    IF Strip(line) = "" THEN ps
    ELSE LET stripped == Strip(line)
             sub_m == Matches(sub_level, stripped)
             top_m == Matches(top_level, stripped)
         IN  IF sub_m /\ ps.current # <<>> /\ Matches(top_level, ps.current[1].heading)
             THEN [ps EXCEPT !.subs = Append(@, [heading |-> stripped, body |-> ""])]
             ELSE IF top_m
             THEN [flush_current(ps) EXCEPT
                     !.current = <<[heading |-> stripped, body |-> ""]>>]
             ELSE IF ps.current = <<>>
             THEN [ps EXCEPT !.current = <<[heading |-> "Preamble", body |-> stripped]>>,
                             !.subs = <<>>]
             ELSE IF ps.subs # <<>>
             THEN [ps EXCEPT !.subs[Len(ps.subs)].body = AppendLine(@, stripped)]
             ELSE [ps EXCEPT !.current[1].body = AppendLine(@, stripped)]

\* a faulty iteration: a plain line goes to the body of the first sub-clause
ParseLineIntoFirstSub(ps, line) ==
    IF Strip(line) = "" THEN ps
    ELSE LET stripped == Strip(line)
             sub_m == Matches(sub_level, stripped)
             top_m == Matches(top_level, stripped)
         IN  IF sub_m /\ ps.current # <<>>
             THEN [ps EXCEPT !.subs = Append(@, [heading |-> stripped, body |-> ""])]
             ELSE IF top_m
             THEN [flush_current(ps) EXCEPT
                     !.current = <<[heading |-> stripped, body |-> ""]>>]
             ELSE IF ps.current = <<>>
             THEN [ps EXCEPT !.current = <<[heading |-> "Preamble", body |-> stripped]>>,
                             !.subs = <<>>]
             ELSE IF ps.subs # <<>>
             THEN [ps EXCEPT !.subs[1].body = AppendLine(@, stripped)]
             ELSE [ps EXCEPT !.current[1].body = AppendLine(@, stripped)]

\* one iteration of `for line in lines`
ParseLine(ps, line) ==
    IF Strip(line) = "" THEN ps
    ELSE LET stripped == Strip(line)
             sub_m == Matches(sub_level, stripped)
             top_m == Matches(top_level, stripped)
         IN  IF sub_m /\ ps.current # <<>>
             THEN [ps EXCEPT !.subs = Append(@, [heading |-> stripped, body |-> ""])]
             ELSE IF top_m
             THEN [flush_current(ps) EXCEPT
                     !.current = <<[heading |-> stripped, body |-> ""]>>]
             ELSE IF ps.current = <<>>
             THEN [ps EXCEPT !.current = <<[heading |-> "Preamble", body |-> stripped]>>,
                             !.subs = <<>>]
             ELSE IF ps.subs # <<>>
             THEN [ps EXCEPT !.subs[Len(ps.subs)].body = AppendLine(@, stripped)]
             ELSE [ps EXCEPT !.current[1].body = AppendLine(@, stripped)]

\* a faulty numbering: enumerate(clauses) without start=1
NumberClausesFromZero(cs) ==
    [i \in 1..Len(cs) |-> [clause_number |-> i - 1,
                           heading |-> cs[i].heading,
                           body |-> cs[i].body,
                           sub_clauses |-> cs[i].sub_clauses]]

\* for idx, c in enumerate(clauses, start=1): c["clause_number"] = idx
NumberClauses(cs) ==
    [i \in 1..Len(cs) |-> [clause_number |-> i,
                           heading |-> cs[i].heading,
                           body |-> cs[i].body,
                           sub_clauses |-> cs[i].sub_clauses]]

RECURSIVE ParseLines(_, _, _)
ParseLines(ps, lines, i) ==
    IF i > Len(lines) THEN ps ELSE ParseLines(ParseLine(ps, lines[i]), lines, i + 1)

split_into_clauses(text) ==
    NumberClauses(flush_current(ParseLines(ParserStart, LinesOf(text), 1)).clauses)

-----------------------------------------------------------------------------
(* classify_clause_intent, business_impact, clause_risk_level *)

\* full_text = (c["heading"] + "\n" + c["body"]).strip()
FullText(heading, body) == Strip(heading \o "\n" \o body)

\* any(k in lower for k in ks)
AnyIn(lower, ks) == \E k \in ks : Contains(lower, k)

\* a faulty classifier: the obligation markers are tested first
classify_clause_intent_obligation_first(text) ==
    LET lower == Lower(text)
    IN  IF AnyIn(lower, {"shall", "must", "agrees to", "undertakes to"})
        THEN "OBLIGATION"
        ELSE IF AnyIn(lower, {"shall not", "must not", "prohibited", "no party shall"})
        THEN "PROHIBITION"
        ELSE IF AnyIn(lower, {"may", "entitled to", "reserves the right"})
        THEN "RIGHT"
        ELSE IF AnyIn(lower, {"subject to", "provided that", "if ", "in the event that"})
        THEN "CONDITIONAL"
        ELSE "INFORMATIONAL"

classify_clause_intent(text) ==
    LET lower == Lower(text)
    IN  IF AnyIn(lower, {"shall not", "must not", "prohibited", "no party shall"})
        THEN "PROHIBITION"
        ELSE IF AnyIn(lower, {"shall", "must", "agrees to", "undertakes to"})
        THEN "OBLIGATION"
        ELSE IF AnyIn(lower, {"may", "entitled to", "reserves the right"})
        THEN "RIGHT"
        ELSE IF AnyIn(lower, {"subject to", "provided that", "if ", "in the event that"})
        THEN "CONDITIONAL"
        ELSE "INFORMATIONAL"

business_impact(intent) ==
    CASE intent = "OBLIGATION" ->
           "Specifies something a party is required to do; missing this may lead to breach."
      [] intent = "RIGHT" ->
           "Gives a party a choice or benefit they can exercise."
      [] intent = "PROHIBITION" ->
           "Restricts or stops a party from doing something; breach can trigger penalties or termination."
      [] intent = "CONDITIONAL" ->
           "Describes what happens only if certain conditions or events occur."
      [] OTHER ->
           "Explains background, definitions, or general information without direct action."

Levels == <<"LOW", "MEDIUM", "HIGH">>

\* ["LOW", "MEDIUM", "HIGH"].index(r)
LevelIndex(r) == CHOOSE i \in 1..Len(Levels) : Levels[i] = r

\* max(risk, target, key=["LOW", "MEDIUM", "HIGH"].index)
MaxLevel(a, b) == IF LevelIndex(b) > LevelIndex(a) THEN b ELSE a

\* the twelve `if` statements of clause_risk_level, in source order
NumRules == 12

RuleFlag ==
    <<"lock_in_or_non_cancellable", "auto_renewal", "indemnity", "unlimited_liability",
      "limitation_of_liability", "ip_assignment", "non_compete_or_exclusivity",
      "penalties_or_liquidated_damages", "late_payment_interest",
      "unilateral_termination", "confidentiality", "arbitration_and_jurisdiction">>

\* the condition of rule r
RuleFires(r, lower) ==
    CASE r = 1 -> \/ Contains(lower, "lock-in")
                  \/ Contains(lower, "lock in")
                  \/ Contains(lower, "non-cancellable")
      [] r = 2 -> Contains(lower, "auto-renew") \/ Contains(lower, "automatically renew")
      [] r = 3 -> Contains(lower, "indemnify") \/ Contains(lower, "indemnity")
      [] r = 4 -> \/ Contains(lower, "unlimited liability")
                  \/ Contains(lower, "without any limitation")
      [] r = 5 -> \/ Contains(lower, "limitation of liability")
                  \/ Contains(lower, "liability shall be limited")
      [] r = 6 -> \/ Contains(lower, "assign all intellectual property")
                  \/ (Contains(lower, "hereby assigns")
                      /\ Contains(lower, "intellectual property"))
      [] r = 7 -> \/ Contains(lower, "non-compete")
                  \/ Contains(lower, "non compete")
                  \/ (Contains(lower, "exclusive") /\ Contains(lower, "territory"))
      [] r = 8 -> \/ Contains(lower, "penalty")
                  \/ Contains(lower, "liquidated damages")
                  \/ Contains(lower, "fine")
      [] r = 9 -> Contains(lower, "interest") /\ Contains(lower, "late payment")
      [] r = 10 -> /\ Contains(lower, "may terminate")
                   /\ ~Contains(lower, "other party may not")
      [] r = 11 -> Contains(lower, "confidential") \/ Contains(lower, "non-disclosure")
      [] r = 12 -> \/ Contains(lower, "arbitration")
                   \/ Contains(lower, "arbitral")
                   \/ Contains(lower, "arbitrator")

\* a faulty rule table: the auto-renewal rule assigns "MEDIUM" outright
RuleRiskAssigning(r, lower, level) ==
    CASE r = 1 -> "HIGH"
      [] r = 2 -> "MEDIUM"
      [] r = 3 -> IF Contains(lower, "unlimited") \/ Contains(lower, "all claims")
                  THEN "HIGH"
                  ELSE MaxLevel(level, "MEDIUM")
      [] r = 4 -> "HIGH"
      [] r \in {5, 9, 11} -> level
      [] OTHER -> MaxLevel(level, "MEDIUM")

\* a faulty rule table: the unilateral-termination rule assigns "MEDIUM" outright
RuleRiskLoweredByTermination(r, lower, level) ==
    CASE r = 1 -> "HIGH"
      [] r = 3 -> IF Contains(lower, "unlimited") \/ Contains(lower, "all claims")
                  THEN "HIGH"
                  ELSE MaxLevel(level, "MEDIUM")
      [] r = 4 -> "HIGH"
      [] r \in {5, 9, 11} -> level
      [] r = 10 -> "MEDIUM"
      [] OTHER -> MaxLevel(level, "MEDIUM")

\* a faulty rule table: an indemnity that is not unlimited assigns "MEDIUM" outright
RuleRiskIndemnityAssigning(r, lower, level) ==
    CASE r = 1 -> "HIGH"
      [] r = 3 -> IF Contains(lower, "unlimited") \/ Contains(lower, "all claims")
                  THEN "HIGH"
                  ELSE "MEDIUM"
      [] r = 4 -> "HIGH"
      [] r \in {5, 9, 11} -> level
      [] OTHER -> MaxLevel(level, "MEDIUM")

\* the value rule r leaves in `risk` when it fires
RuleRisk(r, lower, level) ==
    CASE r = 1 -> "HIGH"
      [] r = 2 -> MaxLevel(level, "MEDIUM")
      [] r = 3 -> IF Contains(lower, "unlimited") \/ Contains(lower, "all claims")
                  THEN "HIGH"
                  ELSE MaxLevel(level, "MEDIUM")
      [] r = 4 -> "HIGH"
      [] r = 5 -> level
      [] r = 6 -> MaxLevel(level, "MEDIUM")
      [] r = 7 -> MaxLevel(level, "MEDIUM")
      [] r = 8 -> MaxLevel(level, "MEDIUM")
      [] r = 9 -> level
      [] r = 10 -> MaxLevel(level, "MEDIUM")
      [] r = 11 -> level
      [] r = 12 -> MaxLevel(level, "MEDIUM")

\* rule r applied to st = [risk, flags]
RuleStep(r, lower, st) ==
    IF RuleFires(r, lower)
    THEN [risk |-> RuleRisk(r, lower, st.risk), flags |-> Append(st.flags, RuleFlag[r])]
    ELSE st

\* a faulty bump: a PROHIBITION at LOW is raised to HIGH
BumpToHigh(intent, level) == IF intent = "PROHIBITION" /\ level = "LOW" THEN "HIGH" ELSE level

\* a faulty bump: LOW is raised whatever the intent
BumpAnyIntent(intent, level) == IF level = "LOW" THEN "MEDIUM" ELSE level

\* if intent in ["PROHIBITION"] and risk == "LOW": risk = "MEDIUM"
Bump(intent, level) == IF intent = "PROHIBITION" /\ level = "LOW" THEN "MEDIUM" ELSE level

RECURSIVE RulesFrom(_, _, _)
RulesFrom(r, lower, st) ==
    IF r > NumRules THEN st ELSE RulesFrom(r + 1, lower, RuleStep(r, lower, st))

\* returns [risk, flags]
clause_risk_level(text, intent) ==
    LET st == RulesFrom(1, Lower(text), [risk |-> "LOW", flags |-> <<>>])
    IN  [risk |-> Bump(intent, st.risk), flags |-> st.flags]

-----------------------------------------------------------------------------
(* renegotiation_suggestion_for_clause *)

\* the flags with a remediation sentence, in the order the function tests them
Remediation ==
    << <<"lock_in_or_non_cancellable",
         "Replace strict lock-in with the ability for either party to terminate for convenience with 30 days' notice and payment only for work actually done.">>,
       <<"auto_renewal",
         "Change auto-renewal to renewal only with written confirmation, or allow either party to opt out by giving prior written notice (for example, 30 days before renewal).">>,
       <<"indemnity",
         "Limit indemnity to direct third-party claims caused by proven breach or gross negligence, and cap the indemnity amount to a reasonable multiple of the total fees paid.">>,
       <<"unlimited_liability",
         "Cap total liability to 6-12 months of fees paid under the agreement, except for confidentiality breach and willful misconduct.">>,
       <<"ip_assignment",
         "Clarify that only project-specific deliverables are assigned and the service provider keeps all tools, templates and background IP, while giving the client a license to use them as embedded in the deliverables.">>,
       <<"non_compete_or_exclusivity",
         "Narrow any non-compete or exclusivity to specific customers, products or territory, and limit the duration to a reasonable period (for example, 6-12 months).">>,
       <<"penalties_or_liquidated_damages",
         "Replace strict penalties with reasonable, pre-agreed service credits or a capped amount, and ensure any liquidated damages reflect a genuine pre-estimate of loss.">>,
       <<"unilateral_termination",
         "Allow both parties to terminate for material breach (with a cure period) and for convenience with notice, rather than only one side having this right.">>,
       <<"arbitration_and_jurisdiction",
         "Ensure arbitration seat and governing law are in India (e.g. Indian Arbitration Act) and venue is practical for both parties; consider mutual consent for arbitrator appointment.">> >>

InSeq(x, q) == \E i \in 1..Len(q) : q[i] = x

\* a faulty suggestion: the sentences are joined last test first
renegotiation_suggestion_last_first(fl) ==
    IF fl = <<>> THEN <<>>
    ELSE LET hit == SelectSeq(Remediation, LAMBDA e : InSeq(e[1], fl))
             suggestions == [i \in 1..Len(hit) |-> hit[Len(hit) + 1 - i][2]]
         IN  IF suggestions # <<>> THEN <<Join(" ", suggestions)>> ELSE <<>>

\* <<>> is None, <<text>> a suggestion
renegotiation_suggestion_for_clause(fl) ==
    IF fl = <<>> THEN <<>>
    ELSE LET hit == SelectSeq(Remediation, LAMBDA e : InSeq(e[1], fl))
             suggestions == [i \in 1..Len(hit) |-> hit[i][2]]
         IN  IF suggestions # <<>> THEN <<Join(" ", suggestions)>> ELSE <<>>

-----------------------------------------------------------------------------
(* clause_templates.py *)

STANDARD_CLAUSE_TEMPLATES ==
    <<[id |-> "term_notice", heading |-> "Term and termination with notice",
       keywords |-> "term, terminate, notice, days, renewal"],
      [id |-> "limitation_liability", heading |-> "Limitation of liability",
       keywords |-> "liability, limited, cap, exclude, indirect"],
      [id |-> "confidentiality", heading |-> "Confidentiality",
       keywords |-> "confidential, disclose, non-disclosure, information"],
      [id |-> "ip_rights", heading |-> "Intellectual property",
       keywords |-> "intellectual property, assign, license, copyright"],
      [id |-> "indemnity", heading |-> "Indemnity",
       keywords |-> "indemnify, indemnity, hold harmless, claims"],
      [id |-> "payment", heading |-> "Payment terms",
       keywords |-> "payment, fee, invoice, due, days"],
      [id |-> "governing_law", heading |-> "Governing law and jurisdiction",
       keywords |-> "governing law, jurisdiction, courts, dispute"],
      [id |-> "arbitration", heading |-> "Arbitration",
       keywords |-> "arbitration, arbitrator, arbitral"],
      [id |-> "scope_services", heading |-> "Scope of services / deliverables",
       keywords |-> "scope, services, deliverables, perform"],
      [id |-> "warranty", heading |-> "Warranty",
       keywords |-> "warranty, represent, warrant"]>>

\* str.split(): the maximal runs of non-whitespace
SplitWords(s) ==
    LET n == Len(s)
        IsSpace(i) == i < 1 \/ i > n \/ Char(s, i) \in SpaceSet
        starts == SelectSeq(Range(1, n), LAMBDA i : ~IsSpace(i) /\ IsSpace(i - 1))
        ends == SelectSeq(Range(1, n), LAMBDA i : ~IsSpace(i) /\ IsSpace(i + 1))
    IN  [k \in 1..Len(starts) |-> SubSeq(s, starts[k], ends[k])]

\* re.sub(r"[^\w\s]", " ", s), by halves
RECURSIVE PunctToSpace(_)
PunctToSpace(s) ==
    IF Len(s) = 0 THEN ""
    ELSE IF Len(s) = 1 THEN (IF s \in WordSet \cup SpaceSet THEN s ELSE " ")
    ELSE LET h == Len(s) \div 2
         IN  PunctToSpace(SubSeq(s, 1, h)) \o PunctToSpace(SubSeq(s, h + 1, Len(s)))

_normalize_for_similarity(s) == Join(" ", SplitWords(PunctToSpace(Lower(s))))

\* q[:n]
Take(q, n) == SubSeq(q, 1, IF Len(q) < n THEN Len(q) ELSE n)

\* results[:5] and matched[:5]
TopN == 5

\* round(min(1.0, matched / n), 2), in hundredths; no quotient of the template
\* table lies halfway between two hundredths
Round2(matched, n) ==
    LET h == (200 * matched + n) \div (2 * n) IN IF h > 100 THEN 100 ELSE h

\* the result entry of one template, <<>> when the template is skipped
TemplateEntry(t, combined) ==
    LET keywords == SplitWords(_normalize_for_similarity(t.keywords))
        matched == SelectSeq(keywords, LAMBDA k : Contains(combined, k))
        n == IF Len(keywords) > 1 THEN Len(keywords) ELSE 1
    IN  IF matched = <<>> THEN <<>>
        \* score >= 0.2
        ELSE IF 10 * Len(matched) >= 2 * n
        THEN <<[template_id |-> t.id,
                template_heading |-> t.heading,
                match_score |-> Round2(Len(matched), n),
                matched_keywords |-> Take(matched, TopN)]>>
        ELSE <<>>

\* a faulty sort: key=lambda x: x["match_score"]
RECURSIVE InsertAscending(_, _)
InsertAscending(sorted, x) ==
    IF sorted = <<>> THEN <<x>>
    ELSE IF x.match_score < Head(sorted).match_score
    THEN <<x>> \o sorted
    ELSE <<Head(sorted)>> \o InsertAscending(Tail(sorted), x)

\* list.sort(key=lambda x: -x["match_score"]): stable
RECURSIVE InsertByScore(_, _)
InsertByScore(sorted, x) ==
    IF sorted = <<>> THEN <<x>>
    ELSE IF -x.match_score < -Head(sorted).match_score
    THEN <<x>> \o sorted
    ELSE <<Head(sorted)>> \o InsertByScore(Tail(sorted), x)

RECURSIVE SortByScore(_, _)
SortByScore(done, rest) ==
    IF rest = <<>> THEN done
    ELSE SortByScore(InsertByScore(done, Head(rest)), Tail(rest))

clause_similarity_to_templates(clause_heading, clause_body) ==
    LET combined == _normalize_for_similarity(clause_heading \o " " \o clause_body)
    IN  IF combined = "" THEN <<>>
        ELSE LET results == Flatten([i \in 1..Len(STANDARD_CLAUSE_TEMPLATES) |->
                                TemplateEntry(STANDARD_CLAUSE_TEMPLATES[i], combined)])
             IN  Take(SortByScore(<<>>, results), TopN)

-----------------------------------------------------------------------------
(* Python floats (IEEE 754 binary64, round to nearest, ties to even).  A     *)
(* positive float is [m, e]: m its significand as a sequence of bits, most   *)
(* significant first and m[1] = 1, of at most 53 bits; its value is m * 2^e. *)

\* bits of the significand of a binary64
Precision == 53

RECURSIVE BitsOf(_)
BitsOf(n) == IF n = 0 THEN <<>> ELSE Append(BitsOf(n \div 2), n % 2)

RECURSIVE IntOf(_)
IntOf(bits) ==
    IF bits = <<>> THEN 0 ELSE 2 * IntOf(SubSeq(bits, 1, Len(bits) - 1)) + bits[Len(bits)]

Zeros(n) == [i \in 1..n |-> 0]

DropLeadingZeros(bits) ==
    LET ones == SelectSeq(Range(1, Len(bits)), LAMBDA i : bits[i] = 1)
    IN  IF ones = <<>> THEN <<>> ELSE SubSeq(bits, ones[1], Len(bits))

\* bits + 1, one bit longer when every bit is 1
Increment(bits) ==
    LET zeros == SelectSeq(Range(1, Len(bits)), LAMBDA i : bits[i] = 0)
    IN  IF zeros = <<>> THEN <<1>> \o Zeros(Len(bits))
        ELSE LET z == zeros[Len(zeros)]
             IN  SubSeq(bits, 1, z - 1) \o <<1>> \o Zeros(Len(bits) - z)

\* the float nearest to bits * 2^e (+ a nonzero tail when sticky)
RoundToFloat(bits, e, sticky) ==
    IF Len(bits) <= Precision THEN [m |-> bits, e |-> e]
    ELSE LET keep == SubSeq(bits, 1, Precision)
             half == bits[Precision + 1]
             tail == sticky \/ \E i \in (Precision + 2)..Len(bits) : bits[i] = 1
             up == half = 1 /\ (tail \/ keep[Precision] = 1)
             m == IF up THEN Increment(keep) ELSE keep
             e1 == e + (Len(bits) - Precision)
         IN  IF Len(m) > Precision
             THEN [m |-> SubSeq(m, 1, Precision), e |-> e1 + 1]
             ELSE [m |-> m, e |-> e1]

FloatOfInt(n) == [m |-> BitsOf(n), e |-> 0]

\* long division of bits[lo..hi] by d with incoming remainder r, by halves:
\* <<quotient bits, remainder>>
RECURSIVE LongDiv(_, _, _, _, _)
LongDiv(bits, d, lo, hi, r) ==
    IF lo > hi THEN <<<<>>, r>>
    ELSE IF lo = hi
    THEN LET r1 == 2 * r + bits[lo]
         IN  IF r1 >= d THEN <<<<1>>, r1 - d>> ELSE <<<<0>>, r1>>
    ELSE LET mid == (lo + hi) \div 2
             left == LongDiv(bits, d, lo, mid, r)
             right == LongDiv(bits, d, mid + 1, hi, left[2])
         IN  <<left[1] \o right[1], right[2]>>

\* a / d for a float a and a whole number d > 0
FloatDiv(a, d) ==
    LET extra == Precision + 2 + Len(BitsOf(d))
        dividend == a.m \o Zeros(extra)
        qr == LongDiv(dividend, d, 1, Len(dividend), 0)
    IN  RoundToFloat(DropLeadingZeros(qr[1]), a.e - extra, qr[2] # 0)

Reverse(s) == [i \in 1..Len(s) |-> s[Len(s) + 1 - i]]

\* bits[lo..hi] * c + carry, by halves from the least significant end:
\* <<product bits of the range, least significant first, outgoing carry>>
RECURSIVE MulRange(_, _, _, _, _)
MulRange(bits, c, lo, hi, carry) ==
    IF lo > hi THEN <<<<>>, carry>>
    ELSE IF lo = hi
    THEN LET v == bits[lo] * c + carry IN <<<<v % 2>>, v \div 2>>
    ELSE LET mid == (lo + hi) \div 2
             right == MulRange(bits, c, mid + 1, hi, carry)
             left == MulRange(bits, c, lo, mid, right[2])
         IN  <<right[1] \o left[1], left[2]>>

\* a * c for a float a and a whole number c > 0
FloatMul(a, c) ==
    LET p == MulRange(a.m, c, 1, Len(a.m), 0)
    IN  RoundToFloat(BitsOf(p[2]) \o Reverse(p[1]), a.e, FALSE)

\* int(a) for a float a below 2^31
FloatTrunc(a) ==
    IF a.e >= 0 THEN IntOf(a.m \o Zeros(a.e))
    ELSE IF -a.e >= Len(a.m) THEN 0
    ELSE IntOf(SubSeq(a.m, 1, Len(a.m) + a.e))

-----------------------------------------------------------------------------
(* contract_level_risk_score and the interpretation bands of analyze_contract *)

\* a faulty table: the weights of MEDIUM and HIGH exchanged
WeightExchanged(r) ==
    CASE r = "LOW" -> 1
      [] r = "MEDIUM" -> 6
      [] r = "HIGH" -> 3
      [] OTHER -> 1

\* a faulty table: weights counted from 0
WeightFromZero(r) ==
    CASE r = "LOW" -> 0
      [] r = "MEDIUM" -> 3
      [] r = "HIGH" -> 6
      [] OTHER -> 0

\* weights = {"LOW": 1, "MEDIUM": 3, "HIGH": 6}; weights.get(r, 1)
Weight(r) ==
    CASE r = "LOW" -> 1
      [] r = "MEDIUM" -> 3
      [] r = "HIGH" -> 6
      [] OTHER -> 1

RECURSIVE SumWeights(_)
SumWeights(rs) == IF rs = <<>> THEN 0 ELSE Weight(Head(rs)) + SumWeights(Tail(rs))

\* int(min(100, max(0, x))) for a float x > 0
ClampToInt(x) == LET t == FloatTrunc(x) IN IF t >= 100 THEN 100 ELSE IF t < 0 THEN 0 ELSE t

\* a faulty score: the total is scaled, not the mean
ScaledScoreOfTotal(total, n) ==
    ClampToInt(FloatMul(FloatDiv(FloatOfInt(total), 6), 100))

\* int(min(100, max(0, (total / n / 6.0) * 100)))
ScaledScore(total, n) ==
    ClampToInt(FloatMul(FloatDiv(FloatDiv(FloatOfInt(total), n), 6), 100))

contract_level_risk_score(rs) ==
    IF rs = <<>> THEN 0 ELSE ScaledScore(SumWeights(rs), Len(rs))

\* if composite_score <= 30 ... elif composite_score <= 60 ... else
risk_interpretation(composite_score) ==
    IF composite_score <= 30 THEN "Safe"
    ELSE IF composite_score <= 60 THEN "Needs review"
    ELSE "High risk"

-----------------------------------------------------------------------------
(* normalize_language, detect_contract_type, extract_entities and the       *)
(* helpers of nlp_utils.py.  A pattern compiled with re.IGNORECASE is        *)
(* written in lower case and matched on the lower-cased text; the matched    *)
(* text is cut from the original.  None is <<>>, a value v is <<v>>.         *)

\* if not text or not text.strip(): return text; hindi goes to the translator
\* (translation is what normalize_hindi_to_english returns for this text)
normalize_language(text, language, translation) ==
    IF text = "" \/ Strip(text) = "" THEN text
    ELSE IF Lower(Strip(IF language = <<>> THEN "" ELSE language[1])) = "hindi"
    THEN translation
    ELSE text

detect_contract_type(text) ==
    LET lower == Lower(text)
    IN  IF AnyIn(lower, {"non-disclosure", "confidentiality agreement", "nondisclosure", "nda"})
        THEN <<"NDA / Confidentiality Agreement",
               "Mentions non-disclosure / confidentiality obligations typical of NDAs.">>
        ELSE IF AnyIn(lower, {"employment", "employee", "employer", "salary", "ctc"})
        THEN <<"Employment Agreement",
               "Contains terms about employment, employer-employee relationship or salary.">>
        ELSE IF AnyIn(lower, {"lease", "rental", "rent", "licence to use premises"})
        THEN <<"Lease / Rental Agreement", "Refers to lease or rental of premises/property.">>
        ELSE IF AnyIn(lower, {"partner", "partnership deed", "profit sharing"})
        THEN <<"Partnership Deed", "Talks about partners and profit sharing like a partnership.">>
        ELSE IF AnyIn(lower, {"supplier", "purchase order", "supply of goods", "buyer", "vendor"})
        THEN <<"Vendor / Supplier Contract",
               "Talks about supply of goods, vendors or purchase orders.">>
        ELSE IF AnyIn(lower, {"services", "service provider", "consultant", "consultancy",
                              "agency"})
        THEN <<"Service Agreement", "Describes one party providing services to another.">>
        ELSE <<"Mixed / Hybrid Contract",
               "No single dominant type detected; appears to mix multiple elements.">>

\* \s+ and . (with re.DOTALL)
Spaces == Plus(Set(SpaceSet))
AnyChar == NotSet({})
Digit == Set(DigitSet)

\* the words of ws with \s+ between them
Words(ws) ==
    Cat(Flatten([i \in 1..Len(ws) |-> IF i = 1 THEN <<Lit(ws[i])>>
                                                ELSE <<Spaces, Lit(ws[i])>>]))

\* list(dict.fromkeys(q)): the first occurrence of each element, in order
Dedupe(q) ==
    LET keep == SelectSeq(Range(1, Len(q)), LAMBDA i : ~\E j \in 1..(i - 1) : q[j] = q[i])
    IN  [k \in 1..Len(keep) |-> q[keep[k]]]

StripAll(q) == [i \in 1..Len(q) |-> Strip(q[i])]

\* the three party_patterns: <<before the group, the group, after the group>>
party_patterns ==
    <<<<Cat(<<Lit("between"), Spaces>>), LazyRep(AnyChar, 0, -1),
        Alt(<<Lit(","), Cat(<<Set(SpaceSet), Lit("and"), Set(SpaceSet)>>), Lit("\n")>>)>>,
      <<Cat(<<Words(<<"by", "and", "between">>), Spaces>>), LazyRep(AnyChar, 0, -1),
        Alt(<<Lit(","), Cat(<<Set(SpaceSet), Lit("and"), Set(SpaceSet)>>), Lit("\n")>>)>>,
      <<Cat(<<Words(<<"party", "of", "the", "first", "part">>), Spaces>>),
        LazyRep(AnyChar, 0, -1),
        Alt(<<Lit(","), Lit("\n")>>)>> >>

\* if name and name not in parties and len(name) < 200: parties.append(name)
RECURSIVE AddParties(_, _)
AddParties(parties, names) ==
    IF names = <<>> THEN parties
    ELSE LET name == Head(names)
         IN  AddParties(IF name # "" /\ ~InSeq(name, parties) /\ Len(name) < 200
                        THEN Append(parties, name) ELSE parties,
                        Tail(names))

Parties(text) ==
    LET Names(lower, k) ==
            StripAll(GroupTexts(party_patterns[k][1], party_patterns[k][2],
                                party_patterns[k][3], lower, text))
    IN  With(Lower(text), LAMBDA lower :
            AddParties(AddParties(AddParties(<<>>, Names(lower, 1)), Names(lower, 2)),
                       Names(lower, 3)))

\* (?:INR|Rs\.?|Rupees)\s*[\.:]?\s*[0-9,]+(?:\.[0-9]{1,2})?
amount_pattern ==
    Cat(<<Alt(<<Lit("inr"), Cat(<<Lit("rs"), Opt(Lit("."))>>), Lit("rupees")>>),
          Star(Set(SpaceSet)), Opt(Set({".", ":"})), Star(Set(SpaceSet)),
          Plus(Set(DigitSet \cup {","})),
          Opt(Cat(<<Lit("."), Rep(Digit, 1, 2)>>))>>)

\* \b\d{1,2}[\/\-]\d{1,2}[\/\-]\d{2,4}\b
numeric_date ==
    Cat(<<WordB, Rep(Digit, 1, 2), Set({"/", "-"}), Rep(Digit, 1, 2), Set({"/", "-"}),
          Rep(Digit, 2, 4), WordB>>)

Months ==
    <<"january", "february", "march", "april", "may", "june", "july", "august",
      "september", "october", "november", "december">>

\* dates += re.findall(pat, text): the whole match of the first pattern, the
\* one group (the month) of the second
Dates(text) ==
    With(Lower(text), LAMBDA lower :
        MatchTexts(numeric_date, lower, text)
        \o GroupTexts(Cat(<<WordB, Rep(Digit, 1, 2), Spaces>>), AnyOf(Months),
                      Cat(<<Spaces, Rep(Digit, 4, 4), WordB>>), lower, text))

\* group 1 of re.search over before(group)after, stripped; <<>> without a match
SearchGroup(before, group, after, text) ==
    With(Lower(text), LAMBDA lower :
        With(GroupTexts(before, group, after, lower, text), LAMBDA found :
            IF found = <<>> THEN <<>> ELSE <<Strip(found[1])>>))

\* laws of\s+([A-Za-z\s]+)
Jurisdiction(text) ==
    SearchGroup(Cat(<<Lit("laws of"), Spaces>>), Plus(Set(LetterSet \cup SpaceSet)),
                Cat(<<>>), text)

\* term\s+of\s+this\s+agreement\s+shall\s+be\s+([A-Za-z0-9\s]+?)(?:\.|\n)
Duration(text) ==
    SearchGroup(Cat(<<Words(<<"term", "of", "this", "agreement", "shall", "be">>), Spaces>>),
                LazyRep(Set(LetterSet \cup DigitSet \cup SpaceSet), 1, -1),
                Alt(<<Lit("."), Lit("\n")>>), text)

\* the four patterns of extract_termination_conditions
termination_patterns ==
    <<Cat(<<Lit("terminat"), Alt(<<Lit("e"), Lit("ion")>>), Spaces,
            Alt(<<Words(<<"for", "cause">>), Words(<<"without", "cause">>),
                  Words(<<"for", "convenience">>),
                  Cat(<<Lit("upon"), Spaces, Plus(Digit), Spaces, Lit("day"), Opt(Lit("s")),
                        Spaces, Lit("notice")>>)>>)>>),
      Cat(<<Plus(Digit), Spaces, Lit("day"), Opt(Lit("s")), Spaces,
            Opt(Cat(<<Lit("prior"), Spaces>>)), Words(<<"written", "notice">>)>>),
      Cat(<<Words(<<"material", "breach">>),
            Opt(Cat(<<Spaces, Lit("and"), Spaces,
                      Opt(Cat(<<Words(<<"failure", "to">>), Spaces>>)), Lit("cure")>>))>>),
      Words(<<"either", "party", "may", "terminate">>)>>

extract_termination_conditions(text) ==
    LET lower == Lower(text)
        found == Flatten([k \in 1..Len(termination_patterns) |->
                            StripAll(MatchTexts(termination_patterns[k], lower, lower))])
    IN  Take(Dedupe(found), 10)

extract_entities(text) ==
    LET lower == Lower(text)
    IN  [parties |-> Parties(text),
         dates_and_duration |-> [dates_raw |-> Dates(text), duration_text |-> Duration(text)],
         financials |-> [amounts_mentions |-> MatchTexts(amount_pattern, lower, text)],
         jurisdiction_or_governing_law |-> Jurisdiction(text),
         termination_conditions |-> extract_termination_conditions(text),
         flags |-> [confidentiality_clause_present |-> Contains(lower, "confidential"),
                    ip_clause_present |->
                        AnyIn(lower, {"intellectual property", "ip rights", "copyright",
                                      "trademark", "patent"})]]

\* the three pattern families of detect_ambiguity with their reasons
ambiguity_patterns ==
    <<<<Cat(<<WordB,
              AnyOf(<<"reasonable", "appropriate", "timely", "as soon as practicable",
                      "forthwith">>),
              Spaces, AnyOf(<<"time", "period", "notice", "manner">>), WordB>>),
        "Vague time or standard; 'reasonable' or 'appropriate' may be interpreted differently.">>,
      <<Cat(<<WordB, AnyOf(<<"reasonable", "best">>), Spaces, Lit("effort"), Opt(Lit("s")),
              WordB>>),
        "Obligation level unclear; 'reasonable efforts' vs 'best efforts' have different legal weight.">>,
      <<Cat(<<WordB, AnyOf(<<"material", "substantial", "significant">>), Spaces,
              AnyOf(<<"breach", "default", "change", "delay">>), WordB>>),
        "Threshold not defined; 'material' or 'substantial' is subjective without a definition.">> >>

\* \b(it|this|that|such)\s+(shall|will|may)\b
reference_pattern ==
    Cat(<<WordB, AnyOf(<<"it", "this", "that", "such">>), Spaces,
          AnyOf(<<"shall", "will", "may">>), WordB>>)

\* the findings as <<phrase, reason>>
detect_ambiguity(text) ==
    LET lower == Lower(text)
        Family(k) ==
            LET ms == MatchTexts(ambiguity_patterns[k][1], lower, lower)
            IN  [n \in 1..Len(ms) |-> <<ms[n], ambiguity_patterns[k][2]>>]
        scope == IF \/ Contains(lower, "including but not limited to")
                    \/ Contains(lower, "including without limitation")
                 THEN <<<<"including but not limited to / including without limitation",
                          "Scope may be broader than expected; list is non-exhaustive.">>>>
                 ELSE <<>>
        andor == IF Contains(lower, "and/or")
                 THEN <<<<"and/or", "Ambiguous whether one or both apply; can cause dispute.">>>>
                 ELSE <<>>
        reference == IF Found(reference_pattern, lower)
                     THEN <<<<"it/this/that + shall/will/may",
                              "Reference may be unclear; which obligation is referred to?">>>>
                     ELSE <<>>
    IN  Take(Family(1) \o Family(2) \o Family(3) \o scope \o andor \o reference, 15)

-----------------------------------------------------------------------------
(* analyze_contract.  The ten keys of the result begin with a digit in the  *)
(* source ("1_contract_type_and_overview"); here they begin with s.         *)

\* one turn of `for c in clauses` : the entry of clause_explanations together
\* with risk_level and flags of the entry of risk_flags
\* the text of the sub-clauses of a clause, headings and bodies, line by line
SubClauseText(subs) ==
    Join("\n", Flatten([k \in 1..Len(subs) |->
                    <<subs[k].heading>>
                        \o (IF subs[k].body = "" THEN <<>> ELSE <<subs[k].body>>)]))

\* a faulty loop body: the text of the sub-clauses is classified with the
\* heading and the body
ClauseEntryReadingSubs(c) ==
    With(Strip(FullText(c.heading, c.body) \o "\n" \o SubClauseText(c.sub_clauses)),
         LAMBDA full_text :
        With(classify_clause_intent(full_text), LAMBDA intent :
            With(clause_risk_level(full_text, intent), LAMBDA level :
                [clause_number |-> c.clause_number,
                 heading |-> c.heading,
                 intent |-> intent,
                 business_impact |-> business_impact(intent),
                 text_preview |-> Take(full_text, 500),
                 template_matches |-> clause_similarity_to_templates(c.heading, c.body),
                 risk_level |-> level.risk,
                 flags |-> level.flags])))

ClauseEntry(c) ==
    With(FullText(c.heading, c.body), LAMBDA full_text :
        With(classify_clause_intent(full_text), LAMBDA intent :
            With(clause_risk_level(full_text, intent), LAMBDA level :
                [clause_number |-> c.clause_number,
                 heading |-> c.heading,
                 intent |-> intent,
                 business_impact |-> business_impact(intent),
                 text_preview |-> Take(full_text, 500),
                 template_matches |-> clause_similarity_to_templates(c.heading, c.body),
                 risk_level |-> level.risk,
                 flags |-> level.flags])))

MapSeq(q, Op(_)) == With(q, LAMBDA v : [i \in 1..Len(v) |-> Op(v[i])])

\* sorted(q, key=lambda x: x["clause_number"]): stable
SortedByNumber(q) ==
    LET Rank(i) == 1 + Cardinality({j \in 1..Len(q) :
                        \/ q[j].clause_number < q[i].clause_number
                        \/ (q[j].clause_number = q[i].clause_number /\ j < i)})
    IN  [k \in 1..Len(q) |-> q[CHOOSE i \in 1..Len(q) : Rank(i) = k]]

\* the entry of renegotiations for rf, <<>> when there is none: lines 428-440
Renegotiation(rf) ==
    IF rf.risk_level \in {"MEDIUM", "HIGH"}
    THEN LET suggestion == renegotiation_suggestion_for_clause(rf.flags)
         IN  IF suggestion # <<>>
             THEN <<[clause_number |-> rf.clause_number,
                     heading |-> rf.heading,
                     risk_level |-> rf.risk_level,
                     suggested_change |-> suggestion[1],
                     why_it_helps |-> "Reduces one-sided exposure and aligns with commonly negotiated positions for Indian SMEs."]>>
             ELSE <<>>
    ELSE <<>>

\* the entry of fairness_flags for rf, <<>> when there is none: lines 442-450
Fairness(rf) ==
    IF rf.flags # <<>>
    THEN <<[clause_number |-> rf.clause_number,
            heading |-> rf.heading,
            one_sided_or_risky_for_sme |-> TRUE,
            flags |-> rf.flags]>>
    ELSE <<>>

RiskRow(rf) ==
    [clause_number |-> rf.clause_number, heading |-> rf.heading,
     risk_level |-> rf.risk_level, flags |-> rf.flags]

ClauseLabel(e) == "Clause " \o ToString(e.clause_number) \o " ('" \o e.heading \o "')"

BiggestRisk(rf) ==
    ClauseLabel(rf) \o " has high risk indicators: "
        \o (IF rf.flags # <<>> THEN Join(", ", rf.flags) ELSE "general exposure") \o "."

KeyObligation(c) == ClauseLabel(c) \o " defines obligations or important actions."

best_practices ==
    [recommendations |->
        <<"Ensure mutual termination rights with reasonable notice (for example, 30 days) instead of strict lock-ins.",
          "Cap total liability to a multiple of the annual contract value, with limited exceptions.",
          "Avoid very broad IP assignments; prefer assignment of project-specific deliverables and retention of tools and background IP.",
          "Tighten any non-compete or exclusivity clauses to specific customers, products, or territories and limit duration.",
          "Replace heavy penalties with realistic service credits or capped liquidated damages.",
          "Clearly document payment terms, late payment interest, and milestone acceptance in simple language.">>,
     clauses_to_add_or_strengthen |->
        <<"Mutual limitation of liability with a clear cap.",
          "Mutual confidentiality obligations with reasonable exclusions.",
          "Mutual termination for convenience and for material breach with cure period.",
          "Dispute resolution clause with Indian governing law and a practical city jurisdiction.">>]

audit_actions ==
    <<"received_input", "normalized_language", "classified_contract_type", "parsed_structure",
      "extracted_entities", "ambiguity_detection", "clause_template_matching",
      "classified_clause_intents", "assigned_clause_risks",
      "generated_renegotiation_suggestions", "computed_contract_level_risk_score",
      "generated_executive_summary", "compiled_best_practices">>

\* lines 363-515 of analyze_contract on the normalized text: the result
\* without its audit log, and the fairness flags the audit log repeats
Pipeline(normalized) ==
    With([type |-> detect_contract_type(normalized),
          parsed |-> split_into_clauses(normalized),
          entities |-> extract_entities(normalized),
          ambiguity_findings |-> detect_ambiguity(normalized)], LAMBDA doc :
    With(MapSeq(doc.parsed, ClauseEntry), LAMBDA entries :
    With([clause_risk_levels |-> [i \in 1..Len(entries) |-> entries[i].risk_level],
          renegotiations |-> Flatten(MapSeq(entries, Renegotiation)),
          fairness_flags |-> Flatten(MapSeq(entries, Fairness)),
          high |-> SortedByNumber(SelectSeq(entries, LAMBDA rf : rf.risk_level = "HIGH")),
          obliged |-> SelectSeq(entries,
                                LAMBDA c : c.intent \in {"OBLIGATION", "PROHIBITION"})],
         LAMBDA found :
    With(contract_level_risk_score(found.clause_risk_levels), LAMBDA composite_score :
        [s1_contract_type_and_overview |->
            [contract_type |-> doc.type[1], explanation |-> doc.type[2]],
         s2_structured_clause_extraction_json |-> [clauses |-> doc.parsed],
         s3_entity_and_attribute_extraction |-> doc.entities,
         s4_clause_by_clause_explanation_table |->
            [i \in 1..Len(entries) |->
                [clause_number |-> entries[i].clause_number,
                 heading |-> entries[i].heading,
                 intent |-> entries[i].intent,
                 business_impact |-> entries[i].business_impact,
                 text_preview |-> entries[i].text_preview,
                 template_matches |-> entries[i].template_matches]],
         s5_risk_analysis_and_flags |->
            [clause_risk_table |-> MapSeq(entries, RiskRow),
             fairness_and_sme_flags |-> found.fairness_flags,
             ambiguity_flags |-> [i \in 1..Len(doc.ambiguity_findings) |->
                                    [phrase |-> doc.ambiguity_findings[i][1],
                                     reason |-> doc.ambiguity_findings[i][2]]]],
         s6_renegotiation_suggestions |-> found.renegotiations,
         s7_contract_risk_score_summary |->
            [composite_risk_score_0_to_100 |-> composite_score,
             interpretation |-> risk_interpretation(composite_score)],
         s8_executive_business_summary |->
            [overview |-> "This appears to be a " \o doc.type[1]
                          \o " drafted in an Indian business context. The analysis focuses on commercial balance, lock-ins, indemnity, IP, termination, and other points that matter to SMEs, without using any specific legal statutes.",
             key_obligations_to_note |-> Take(MapSeq(found.obliged, KeyObligation), 10),
             biggest_risks_in_simple_terms |-> MapSeq(found.high, BiggestRisk),
             what_to_negotiate_before_signing |->
                Take([i \in 1..Len(found.renegotiations) |->
                        found.renegotiations[i].suggested_change], 10)],
         s9_sme_template_and_best_practices |-> best_practices]))))

\* the contracts the server specification submits, by name
ShortDeal == "Deal between A and B,\n1. Fee\nPay Rs. 5 in reasonable time.\n2. Exit\nLock-in."
PaymentAndLockIn ==
    "1. Payment Terms\nThe Client shall pay within 30 days.\n2. Termination\nEither party may terminate this Agreement upon 30 days written notice. This is a lock-in period with no early exit."
HindiNote == "1. Bhugtan\nGrahak 30 din mein bhugtan karega."
HindiNoteInEnglish == "1. Payment\nThe Client shall pay within 30 days."

\* what the language model returns when asked to translate text (.strip()ped)
TranslationOf(text) == IF text = HindiNote THEN HindiNoteInEnglish ELSE Strip(text)

ContractPool == {"", " \n\t ", ShortDeal, HindiNote, PaymentAndLockIn}

\* the texts analyze_contract is given by the server specification
SubmittedTexts ==
    ContractPool \cup {TranslationOf(c) : c \in ContractPool} \cup {Strip(c) : c \in ContractPool}

\* Pipeline on each of them
PipelineTable == [t \in SubmittedTexts |-> Pipeline(t)]

\* translation: what the translator returns for contract_text; now: the
\* reading of the clock at line 519
analyze_contract(contract_text, language, business_role, translation, now) ==
    With(normalize_language(contract_text, language, translation), LAMBDA normalized :
    With(PipelineTable[normalized], LAMBDA result :
        [s1_contract_type_and_overview |-> result.s1_contract_type_and_overview,
         s2_structured_clause_extraction_json |-> result.s2_structured_clause_extraction_json,
         s3_entity_and_attribute_extraction |-> result.s3_entity_and_attribute_extraction,
         s4_clause_by_clause_explanation_table |-> result.s4_clause_by_clause_explanation_table,
         s5_risk_analysis_and_flags |-> result.s5_risk_analysis_and_flags,
         s6_renegotiation_suggestions |-> result.s6_renegotiation_suggestions,
         s7_contract_risk_score_summary |-> result.s7_contract_risk_score_summary,
         s8_executive_business_summary |-> result.s8_executive_business_summary,
         s9_sme_template_and_best_practices |-> result.s9_sme_template_and_best_practices,
         s10_audit_log |->
            [timestamp_utc |-> ToString(now) \o "Z",
             actions |-> audit_actions,
             risk_flags_summary |-> result.s5_risk_analysis_and_flags.fairness_and_sme_flags,
             meta |-> [jurisdiction_scope |-> "India (generic contractual practice, no statutes)",
                       business_role_input |-> business_role]]]))

-----------------------------------------------------------------------------
(* Inputs of the parser specification *)

\* the longest document, in lines
MaxLines == 4

ParseLinePool ==
    {"", "1. Fees", "ii) Term  ", "NOTICES", "2.1 Sub item", "  body text", "3.2.1) deep"}

RECURSIVE SeqsUpTo(_, _)
SeqsUpTo(S, n) ==
    IF n = 0 THEN {<<>>}
    ELSE LET shorter == SeqsUpTo(S, n - 1)
         IN  shorter \cup {Append(q, x) : q \in {r \in shorter : Len(r) = n - 1}, x \in S}

ParseDocs == {Join("\n", ls) : ls \in SeqsUpTo(ParseLinePool, MaxLines)}

ParserIdle ==
    /\ ppc = "idle" /\ plines = <<>> /\ pidx = 0
    /\ clauses = <<>> /\ current = <<>> /\ current_subs = <<>>
ClauseIdle ==
    /\ cpc = "idle" /\ cheading = "" /\ cbody = "" /\ cintent = "" /\ crule = 0
    /\ risk = "LOW" /\ flags = <<>> /\ tmatches = <<>> /\ csuggestion = <<>>
ScoreIdle ==
    /\ spc = "idle" /\ clause_risks = <<>> /\ score = 0 /\ interpretation = ""
ServerIdle ==
    /\ clock = 0 /\ audit_file = <<>> /\ served = <<>>

\* the two calls of analyze_contract that may be in flight together
Calls == {"first", "second"}

\* a faulty runtime: every invocation works on the locals of the first
FrameShared(call) == "first"

\* the frame that holds the locals of an invocation: its own
FrameOf(call) == call

\* the locals of analyze_contract and of its call of split_into_clauses
\* before they are assigned
NoLocals ==
    [normalized |-> "", lines |-> <<>>, idx |-> 0,
     clauses |-> <<>>, current |-> <<>>, current_subs |-> <<>>,
     k |-> 0, entries |-> <<>>, clause_risk_levels |-> <<>>,
     rf |-> 0, renegotiations |-> <<>>]

CallsIdle ==
    /\ calls = [c \in Calls |-> [pc |-> "idle", contract_text |-> "", result |-> <<>>]]
    /\ frames = [c \in Calls |-> NoLocals]

\* _nlp = None, _nltk_ready = False: nlp_utils.py:5-6
NlpIdle ==
    /\ _nlp = "None" /\ _nltk_ready = FALSE /\ sentence_calls = <<>>

\* split_into_clauses is called with a text: lines 59-67
PStart(text) ==
    /\ ppc = "idle"
    /\ ppc' = "loop"
    /\ plines' = LinesOf(text)
    /\ pidx' = 1
    /\ clauses' = <<>>
    /\ current' = <<>>
    /\ current_subs' = <<>>
    /\ UNCHANGED <<clauseVars, scoreVars, serverVars, callVars, nlpVars>>

\* one iteration of the loop of lines 77-97
PLine ==
    /\ ppc = "loop"
    /\ pidx <= Len(plines)
    /\ LET ps == ParseLine([clauses |-> clauses, current |-> current, subs |-> current_subs],
                           plines[pidx])
       IN  /\ clauses' = ps.clauses
           /\ current' = ps.current
           /\ current_subs' = ps.subs
    /\ pidx' = pidx + 1
    /\ UNCHANGED <<ppc, plines, clauseVars, scoreVars, serverVars, callVars, nlpVars>>

\* the final flush_current() and the numbering loop, lines 99-106
PFinish ==
    /\ ppc = "loop"
    /\ pidx > Len(plines)
    /\ LET ps == flush_current([clauses |-> clauses, current |-> current,
                                subs |-> current_subs])
       IN  /\ clauses' = NumberClauses(ps.clauses)
           /\ current' = ps.current
           /\ current_subs' = ps.subs
    /\ ppc' = "done"
    /\ UNCHANGED <<plines, pidx, clauseVars, scoreVars, serverVars, callVars, nlpVars>>

InitParse == ParserIdle /\ ClauseIdle /\ ScoreIdle /\ ServerIdle /\ CallsIdle /\ NlpIdle

NextParse ==
    \/ ppc = "idle" /\ \E text \in ParseDocs : PStart(text)
    \/ PLine
    \/ PFinish

SpecParse == InitParse /\ [][NextParse]_vars

-----------------------------------------------------------------------------
(* Inputs and steps of the score specification: contract_level_risk_score  *)
(* and the bands of analyze_contract are applied to a list of clause risk  *)
(* levels, then to the same list with two entries exchanged or with one    *)
(* entry raised by a level.                                                *)

\* the longest list of clause risk levels
MaxRisks == 10
\* lists up to this length are reordered again and again
MaxShuffle == 5

Run(l, k) == [i \in 1..k |-> l]

\* every multiset of levels of at most MaxRisks entries, as a sorted list
RiskLists ==
    {Run("LOW", t[1]) \o Run("MEDIUM", t[2]) \o Run("HIGH", t[3]) :
        t \in {u \in (0..MaxRisks) \X (0..MaxRisks) \X (0..MaxRisks) :
                  u[1] + u[2] + u[3] <= MaxRisks}}

\* the LOW clauses of the long lists
ManyLow == 100

\* long lists: ManyLow LOW clauses, or one fewer, and at most one MEDIUM
\* and one HIGH clause after them
LongLists ==
    {Run("LOW", n) \o tail :
        n \in {ManyLow - 1, ManyLow},
        tail \in {<<>>, <<"MEDIUM">>, <<"HIGH">>, <<"MEDIUM", "HIGH">>}}

Exchange(rs, i, j) ==
    [k \in 1..Len(rs) |-> IF k = i THEN rs[j] ELSE IF k = j THEN rs[i] ELSE rs[k]]

Raised(rs, i) == [rs EXCEPT ![i] = Levels[LevelIndex(rs[i]) + 1]]

\* analysis.py:453-459 on a list of levels
Assess(rs, pc) ==
    LET composite_score == contract_level_risk_score(rs)
    IN  /\ clause_risks' = rs
        /\ score' = composite_score
        /\ interpretation' = risk_interpretation(composite_score)
        /\ spc' = pc
        /\ UNCHANGED <<parserVars, clauseVars, serverVars, callVars, nlpVars>>

SScore(rs) == spc = "idle" /\ Assess(rs, "scored")

SReorder ==
    /\ spc = "scored" \/ (spc = "reordered" /\ Len(clause_risks) <= MaxShuffle)
    /\ \E i \in 1..Len(clause_risks), j \in 1..Len(clause_risks) :
          /\ i < j
          /\ clause_risks[i] # clause_risks[j]
          /\ Assess(Exchange(clause_risks, i, j), "reordered")

SRaise ==
    /\ spc = "scored"
    /\ \E i \in 1..Len(clause_risks) :
          /\ clause_risks[i] # "HIGH"
          /\ Assess(Raised(clause_risks, i), "raised")

InitScore == ParserIdle /\ ClauseIdle /\ ScoreIdle /\ ServerIdle /\ CallsIdle /\ NlpIdle

NextScore ==
    \/ \E rs \in RiskLists \cup LongLists : SScore(rs)
    \/ SReorder
    \/ SRaise

SpecScore == InitScore /\ [][NextScore]_vars

-----------------------------------------------------------------------------
(* Inputs and steps of the clause specification: the body of the loop of    *)
(* analyze_contract for one clause, the twelve rules of clause_risk_level   *)
(* one per step.                                                            *)

\* the most phrases in one clause body
MaxPhrases == 2

HeadingPool == {"1. Fees", "TERMINATION NOTICE"}

PhrasePool ==
    <<"The Client shall pay the fee.",
      "Lock-in period of 12 months.",
      "This agreement will automatically renew.",
      "Vendor will indemnify for all claims.",
      "Indemnity applies.",
      "Unlimited liability applies.",
      "Limitation of liability: capped.",
      "Supplier hereby assigns intellectual property.",
      "Non-compete in exclusive territory.",
      "A penalty or fine is due if late.",
      "Interest accrues on late payment.",
      "Company may terminate at will.",
      "The other party may not terminate.",
      "Keep it confidential.",
      "Disputes go to arbitration.",
      "Staff must not disclose.",
      "notice liability license claims payment jurisdiction warranty">>

\* the phrases whose index is in S, in pool order, joined by blanks
BodyOf(S) ==
    Join(" ", SelectSeq([i \in 1..Len(PhrasePool) |-> IF i \in S THEN PhrasePool[i] ELSE ""],
                        LAMBDA p : p # ""))

BodyPool ==
    {BodyOf(S) : S \in {T \in SUBSET (1..Len(PhrasePool)) : Cardinality(T) <= MaxPhrases}}

\* for c in clauses: the loop takes up a clause
CStart(heading, body) ==
    /\ cpc = "idle"
    /\ cpc' = "intent"
    /\ cheading' = heading
    /\ cbody' = body
    /\ UNCHANGED <<cintent, crule, risk, flags, tmatches, csuggestion>>
    /\ UNCHANGED <<parserVars, scoreVars, serverVars, callVars, nlpVars>>

\* intent = classify_clause_intent(full_text); clause_risk_level starts: lines 215-217
CIntent ==
    /\ cpc = "intent"
    /\ cintent' = classify_clause_intent(FullText(cheading, cbody))
    /\ risk' = "LOW"
    /\ flags' = <<>>
    /\ crule' = 1
    /\ cpc' = "rules"
    /\ UNCHANGED <<cheading, cbody, tmatches, csuggestion>>
    /\ UNCHANGED <<parserVars, scoreVars, serverVars, callVars, nlpVars>>

\* the next `if` of clause_risk_level: lines 219-273
CRule ==
    /\ cpc = "rules"
    /\ crule <= NumRules
    /\ LET st == RuleStep(crule, Lower(FullText(cheading, cbody)),
                          [risk |-> risk, flags |-> flags])
       IN  risk' = st.risk /\ flags' = st.flags
    /\ crule' = crule + 1
    /\ UNCHANGED <<cpc, cheading, cbody, cintent, tmatches, csuggestion>>
    /\ UNCHANGED <<parserVars, scoreVars, serverVars, callVars, nlpVars>>

\* lines 276-279
CBump ==
    /\ cpc = "rules"
    /\ crule > NumRules
    /\ risk' = Bump(cintent, risk)
    /\ cpc' = "templates"
    /\ UNCHANGED <<cheading, cbody, cintent, crule, flags, tmatches, csuggestion>>
    /\ UNCHANGED <<parserVars, scoreVars, serverVars, callVars, nlpVars>>

\* template_matches = clause_similarity_to_templates(c["heading"], c["body"])
CTemplates ==
    /\ cpc = "templates"
    /\ tmatches' = clause_similarity_to_templates(cheading, cbody)
    /\ cpc' = "suggest"
    /\ UNCHANGED <<cheading, cbody, cintent, crule, risk, flags, csuggestion>>
    /\ UNCHANGED <<parserVars, scoreVars, serverVars, callVars, nlpVars>>

\* the clause's turn in `for rf in risk_flags`: lines 425-430
CSuggest ==
    /\ cpc = "suggest"
    /\ csuggestion' = IF risk \in {"MEDIUM", "HIGH"}
                      THEN renegotiation_suggestion_for_clause(flags)
                      ELSE <<>>
    /\ cpc' = "done"
    /\ UNCHANGED <<cheading, cbody, cintent, crule, risk, flags, tmatches>>
    /\ UNCHANGED <<parserVars, scoreVars, serverVars, callVars, nlpVars>>

\* texts appended to the body of a clause that has been analysed
AppendPool ==
    {" The other party may not terminate.",
     "\nStaff must not disclose.",
     " Liability shall be limited.",
     " Indemnity applies.",
     " Company may terminate if it is late."}

\* the loop body of analyze_contract, lines 392-398 and 428-430, on the
\* clause with extra appended to its body
CExtend(extra) ==
    /\ cpc = "done"
    /\ cpc' = "extended"
    /\ cbody' = cbody \o extra
    /\ \E full_text \in {FullText(cheading, cbody \o extra)} :
       \E intent \in {classify_clause_intent(full_text)} :
       \E level \in {clause_risk_level(full_text, intent)} :
          /\ cintent' = intent
          /\ risk' = level.risk
          /\ flags' = level.flags
          /\ csuggestion' = IF level.risk \in {"MEDIUM", "HIGH"}
                            THEN renegotiation_suggestion_for_clause(level.flags)
                            ELSE <<>>
    /\ tmatches' = clause_similarity_to_templates(cheading, cbody \o extra)
    /\ UNCHANGED <<cheading, crule>>
    /\ UNCHANGED <<parserVars, scoreVars, serverVars, callVars, nlpVars>>

InitClause == ParserIdle /\ ClauseIdle /\ ScoreIdle /\ ServerIdle /\ CallsIdle /\ NlpIdle

NextClause ==
    \/ cpc = "idle" /\ \E heading \in HeadingPool, body \in BodyPool : CStart(heading, body)
    \/ CIntent
    \/ CRule
    \/ CBump
    \/ CTemplates
    \/ CSuggest
    \/ \E extra \in AppendPool : CExtend(extra)

SpecClause == InitClause /\ [][NextClause]_vars

-----------------------------------------------------------------------------
(* extractors.py and the HTTP surface of main.py.  An uploaded file is      *)
(* [filename, readable, text]: text is what the document holds, readable     *)
(* whether the PDF / DOCX library opens it without raising.                  *)

EndsWith(s, suffix) ==
    Len(s) >= Len(suffix) /\ SubSeq(s, Len(s) - Len(suffix) + 1, Len(s)) = suffix

\* extract_from_pdf / extract_from_docx: <<text, error>>, error <<>> for None
extract_from_document(file, empty_message) ==
    IF ~file.readable THEN <<"", <<"cannot open document">>>>
    ELSE IF Strip(file.text) = "" THEN <<"", <<empty_message>>>>
    ELSE <<Strip(file.text), <<>>>>

\* extract_from_txt: latin-1 decodes any bytes
extract_from_txt(file) == <<Strip(file.text), <<>>>>

extract_text_from_file(file) ==
    LET name == Lower(file.filename)
    IN  IF EndsWith(name, ".pdf")
        THEN extract_from_document(file,
                "PDF appears to be image-based or empty; no text could be extracted.")
        ELSE IF EndsWith(name, ".docx")
        THEN extract_from_document(file, "DOCX appears to be empty.")
        ELSE IF EndsWith(name, ".txt")
        THEN extract_from_txt(file)
        ELSE <<"", <<"Unsupported format. Use PDF, DOCX, or TXT. Got: " \o file.filename>>>>

\* the most requests the server is sent
MaxRequests == 2
\* the latest reading of the clock
MaxClock == 1

\* AnalyzeRequest bodies posted to /analyze
RequestPool ==
    {[contract_text |-> "", language |-> <<"english">>, business_role |-> <<>>],
     [contract_text |-> " \n\t ", language |-> <<"english">>, business_role |-> <<>>],
     [contract_text |-> ShortDeal, language |-> <<"english">>, business_role |-> <<>>],
     [contract_text |-> PaymentAndLockIn, language |-> <<>>, business_role |-> <<"buyer">>],
     [contract_text |-> HindiNote, language |-> <<" Hindi ">>, business_role |-> <<>>]}

\* uploads posted to /analyze/file
FilePool ==
    {[filename |-> "contract.txt", readable |-> TRUE, text |-> ShortDeal \o "\n"],
     [filename |-> "Blank.TXT", readable |-> TRUE, text |-> " \n\t "],
     [filename |-> "scan.pdf", readable |-> TRUE, text |-> ""],
     [filename |-> "torn.docx", readable |-> FALSE, text |-> ""],
     [filename |-> "deal.docx", readable |-> TRUE, text |-> ShortDeal],
     [filename |-> "notes.md", readable |-> TRUE, text |-> ShortDeal]}

\* what normalize_hindi_to_english may return for text: the translation, or
\* the text itself when no model is configured or the call fails
TranslatorOutputs(text, language) ==
    IF Strip(text) # "" /\ Lower(Strip(IF language = <<>> THEN "" ELSE language[1])) = "hindi"
    THEN {text, TranslationOf(text)}
    ELSE {text}

\* a faulty sink: the file is opened with "w" and holds the last entry only
_persist_audit_log_truncating(file, audit_entry, disk_ok) ==
    IF disk_ok THEN <<audit_entry>> ELSE file

\* _persist_audit_log: the entry is appended unless the write fails
_persist_audit_log(file, audit_entry, disk_ok) ==
    IF disk_ok THEN Append(file, audit_entry) ELSE file

\* analyze_contract, the audit log and the response: main.py:94-102, 116-124;
\* disk_ok is whether the write of the audit file succeeds, and the entry of
\* served notes a write that failed
Respond(endpoint, filename, text, language, business_role, translation) ==
    \E result \in {analyze_contract(text, language, business_role, translation, clock)} :
        \E disk_ok \in BOOLEAN :
            /\ audit_file' = _persist_audit_log(audit_file, result.s10_audit_log, disk_ok)
            /\ served' = Append(served, [endpoint |-> endpoint,
                                         filename |-> filename,
                                         contract_text |-> text,
                                         language |-> language,
                                         business_role |-> business_role,
                                         translation |-> translation,
                                         status |-> 200,
                                         detail |-> <<>>,
                                         result |-> <<result>>,
                                         write_failed |-> ~disk_ok])

\* POST /analyze
PostAnalyze(request, translation) ==
    /\ Len(served) < MaxRequests
    /\ Respond("/analyze", "", request.contract_text, request.language,
               request.business_role, translation)
    /\ UNCHANGED <<clock, parserVars, clauseVars, scoreVars, callVars, nlpVars>>

\* POST /analyze/file
PostAnalyzeFile(file, language, business_role, translation) ==
    /\ Len(served) < MaxRequests
    /\ \E extracted \in {extract_text_from_file(file)} :
          LET text == extracted[1]
              err == extracted[2]
          IN  IF err # <<>> \/ Strip(text) = ""
              THEN /\ translation = text
                   /\ served' = Append(served,
                         [endpoint |-> "/analyze/file",
                          filename |-> file.filename,
                          contract_text |-> text,
                          language |-> language,
                          business_role |-> business_role,
                          translation |-> translation,
                          status |-> 400,
                          detail |-> IF err # <<>> THEN err
                                     ELSE <<"No text extracted from file.">>,
                          result |-> <<>>,
                          write_failed |-> FALSE])
                   /\ UNCHANGED audit_file
              ELSE /\ translation \in TranslatorOutputs(text, language)
                   /\ Respond("/analyze/file", file.filename, text, language, business_role,
                              translation)
    /\ UNCHANGED <<clock, parserVars, clauseVars, scoreVars, callVars, nlpVars>>

\* time passes
Tick ==
    /\ clock < MaxClock
    /\ clock' = clock + 1
    /\ UNCHANGED <<audit_file, served, parserVars, clauseVars, scoreVars, callVars, nlpVars>>

Init == ParserIdle /\ ClauseIdle /\ ScoreIdle /\ ServerIdle /\ CallsIdle /\ NlpIdle

Next ==
    \/ \E request \in RequestPool :
          \E translation \in TranslatorOutputs(request.contract_text, request.language) :
              PostAnalyze(request, translation)
    \/ \E file \in FilePool :
          \E translation \in SubmittedTexts :
              PostAnalyzeFile(file, <<"english">>, <<>>, translation)
    \/ Tick

Spec == Init /\ [][Next]_vars

-----------------------------------------------------------------------------
(* Two calls of analyze_contract in flight together, as a host that runs    *)
(* them on threads has them: each step below is one step of one call, and   *)
(* the steps of the two calls interleave freely.                            *)

\* the documents the calls are given
CallDocs ==
    {"1. Fees\nThe Client shall pay the fee.\n2. Exit\nLock-in period.",
     "Staff must not disclose.\nNOTICES\nCompany may terminate at will.",
     "1. Liability\n1.1 Cap\nUnlimited liability applies.",
     "1. Liability\n2.3) Exit\nCompany may terminate at any time.\nLock-in period of 5 years.",
     "1. Fees\nThe Client shall pay the fee.\n1.1 Late fee\nA penalty applies.\n2. Exit\nLock-in period."}

\* analyze_contract is entered: lines 361 and 59-67
AStart(c, text) ==
    /\ calls[c].pc = "idle"
    /\ \E normalized \in {normalize_language(text, <<>>, text)} :
          frames' = [frames EXCEPT ![FrameOf(c)] =
                        [NoLocals EXCEPT !.normalized = normalized,
                                         !.lines = LinesOf(normalized),
                                         !.idx = 1]]
    /\ calls' = [calls EXCEPT ![c] = [pc |-> "parse", contract_text |-> text,
                                      result |-> <<>>]]
    /\ UNCHANGED <<parserVars, clauseVars, scoreVars, serverVars, nlpVars>>

\* one turn of `for line in lines`: lines 77-97
ALine(c) ==
    /\ calls[c].pc = "parse"
    /\ \E my \in {frames[FrameOf(c)]} :
          /\ my.idx <= Len(my.lines)
          /\ \E ps \in {ParseLine([clauses |-> my.clauses, current |-> my.current,
                                    subs |-> my.current_subs], my.lines[my.idx])} :
                frames' = [frames EXCEPT ![FrameOf(c)] =
                              [my EXCEPT !.clauses = ps.clauses,
                                         !.current = ps.current,
                                         !.current_subs = ps.subs,
                                         !.idx = my.idx + 1]]
    /\ UNCHANGED <<calls, parserVars, clauseVars, scoreVars, serverVars, nlpVars>>

\* the final flush, the numbering and the return of split_into_clauses;
\* the clause lists of analyze_contract are created: lines 99-106, 387-389
AParsed(c) ==
    /\ calls[c].pc = "parse"
    /\ \E my \in {frames[FrameOf(c)]} :
          /\ my.idx > Len(my.lines)
          /\ \E ps \in {flush_current([clauses |-> my.clauses, current |-> my.current,
                                        subs |-> my.current_subs])} :
                frames' = [frames EXCEPT ![FrameOf(c)] =
                              [my EXCEPT !.clauses = NumberClauses(ps.clauses),
                                         !.current = ps.current,
                                         !.current_subs = ps.subs,
                                         !.k = 1,
                                         !.entries = <<>>,
                                         !.clause_risk_levels = <<>>,
                                         !.rf = 1,
                                         !.renegotiations = <<>>]]
    /\ calls' = [calls EXCEPT ![c].pc = "clauses"]
    /\ UNCHANGED <<parserVars, clauseVars, scoreVars, serverVars, nlpVars>>


\* one turn of `for c in clauses`: lines 391-419
AClause(c) ==
    /\ calls[c].pc = "clauses"
    /\ \E my \in {frames[FrameOf(c)]} :
          /\ my.k <= Len(my.clauses)
          /\ \E entry \in {ClauseEntry(my.clauses[my.k])} :
                frames' = [frames EXCEPT ![FrameOf(c)] =
                              [my EXCEPT !.entries = Append(my.entries, entry),
                                         !.clause_risk_levels =
                                             Append(my.clause_risk_levels, entry.risk_level),
                                         !.k = my.k + 1]]
    /\ UNCHANGED <<calls, parserVars, clauseVars, scoreVars, serverVars, nlpVars>>

\* one turn of `for rf in risk_flags`: lines 425-440
ARenegotiate(c) ==
    /\ calls[c].pc = "clauses"
    /\ \E my \in {frames[FrameOf(c)]} :
          /\ my.k > Len(my.clauses)
          /\ my.rf <= Len(my.entries)
          /\ frames' = [frames EXCEPT ![FrameOf(c)] =
                           [my EXCEPT !.renegotiations =
                                          my.renegotiations \o Renegotiation(my.entries[my.rf]),
                                      !.rf = my.rf + 1]]
    /\ UNCHANGED <<calls, parserVars, clauseVars, scoreVars, serverVars, nlpVars>>

\* what a call hands back of its result: the clauses, and per clause the
\* intent, the risk level, the flags and the template matches, the score
\* and the suggestions
Returned(my) ==
    [clauses |-> my.clauses,
     intents |-> [i \in 1..Len(my.entries) |-> my.entries[i].intent],
     risk_levels |-> my.clause_risk_levels,
     flags |-> [i \in 1..Len(my.entries) |-> my.entries[i].flags],
     template_matches |-> [i \in 1..Len(my.entries) |-> my.entries[i].template_matches],
     score |-> contract_level_risk_score(my.clause_risk_levels),
     suggestions |-> my.renegotiations]

\* the score and the return; the locals go with the frame: lines 453-568
AReturn(c) ==
    /\ calls[c].pc = "clauses"
    /\ \E my \in {frames[FrameOf(c)]} :
          /\ my.k > Len(my.clauses)
          /\ my.rf > Len(my.entries)
          /\ calls' = [calls EXCEPT ![c].pc = "done", ![c].result = <<Returned(my)>>]
    /\ frames' = [frames EXCEPT ![FrameOf(c)] = NoLocals]
    /\ UNCHANGED <<parserVars, clauseVars, scoreVars, serverVars, nlpVars>>

InitCalls == ParserIdle /\ ClauseIdle /\ ScoreIdle /\ ServerIdle /\ CallsIdle /\ NlpIdle

NextCalls ==
    \E c \in Calls :
        \/ \E text \in CallDocs : AStart(c, text)
        \/ ALine(c)
        \/ AParsed(c)
        \/ AClause(c)
        \/ ARenegotiate(c)
        \/ AReturn(c)

SpecCalls == InitCalls /\ [][NextCalls]_vars

-----------------------------------------------------------------------------
(* nlp_utils.py: the sentence tokenizer and its lazily loaded backends.     *)
(* _nlp is "None" before the first load, "model" when spaCy's model is      *)
(* loaded and "False" when loading was given up.  What the environment      *)
(* does is an input of each call: first_try and second_try are the outcomes *)
(* of the two `try` blocks of _get_nlp, nltk_import that of `import nltk`,  *)
(* tokenize that of NLTK's sent_tokenize.                                   *)

\* the most calls of get_sentences
MaxSentenceCalls == 2

SentenceTexts == {"", "Pay now. Or else!  Why?\nNo", "e.g. this one"}

\* import spacy; spacy.load(...): it loads, raises OSError, or raises
\* something else (ImportError when spaCy is not installed)
FirstTry == {"loaded", "OSError", "ImportError"}

\* the download and the second spacy.load: it loads or raises an Exception
SecondTry == {"loaded", "Exception"}

\* _get_nlp: the new value of the global and whether the call raised
_get_nlp(nlp, first_try, second_try) ==
    IF nlp # "None" THEN [nlp |-> nlp, raised |-> FALSE]
    ELSE IF first_try = "loaded" THEN [nlp |-> "model", raised |-> FALSE]
    ELSE IF first_try = "OSError"
    THEN [nlp |-> IF second_try = "loaded" THEN "model" ELSE "False", raised |-> FALSE]
    ELSE [nlp |-> "None", raised |-> TRUE]

\* _ensure_nltk: the new value of _nltk_ready
_ensure_nltk(ready, nltk_import) == ready \/ nltk_import = "ok"

\* re.split(r"(?<=[.!?])\s+", text) from position i on, the part in hand
\* beginning at start
RECURSIVE SplitAfterStops(_, _, _)
SplitAfterStops(text, start, i) ==
    IF i > Len(text) THEN <<SubSeq(text, start, Len(text))>>
    ELSE IF i > 1 /\ Char(text, i - 1) \in {".", "!", "?"} /\ Char(text, i) \in SpaceSet
    THEN LET rest == {j \in i..Len(text) : Char(text, j) \notin SpaceSet}
             next == IF rest = {} THEN Len(text) + 1
                     ELSE CHOOSE j \in rest : \A m \in rest : j <= m
         IN  <<SubSeq(text, start, i - 1)>> \o SplitAfterStops(text, next, next)
    ELSE SplitAfterStops(text, start, i + 1)

\* the fallback of get_sentences: lines 62-63
regex_sentences(text) ==
    SelectSeq(StripAll(SplitAfterStops(text, 1, 1)), LAMBDA part : part # "")

\* get_sentences(text).  The entry of sentence_calls says whether the call
\* went into the load of the model, whether it raised, the backend that
\* split the text, and the sentences when the fallback split it (how spaCy
\* and NLTK split a text is theirs to say).
GetSentences(text, first_try, second_try, nltk_import, tokenize) ==
    /\ Len(sentence_calls) < MaxSentenceCalls
    /\ \E got \in {_get_nlp(_nlp, first_try, second_try)} :
          /\ _nlp' = got.nlp
          /\ IF got.raised
             THEN /\ UNCHANGED _nltk_ready
                  /\ sentence_calls' = Append(sentence_calls,
                        [text |-> text, tried_load |-> _nlp = "None", raised |-> TRUE,
                         backend |-> "none", sentences |-> <<>>])
             ELSE IF got.nlp = "model"
             THEN /\ UNCHANGED _nltk_ready
                  /\ sentence_calls' = Append(sentence_calls,
                        [text |-> text, tried_load |-> _nlp = "None", raised |-> FALSE,
                         backend |-> "spacy", sentences |-> <<>>])
             ELSE \E ready \in {_ensure_nltk(_nltk_ready, nltk_import)} :
                  /\ _nltk_ready' = ready
                  /\ sentence_calls' = Append(sentence_calls,
                        [text |-> text, tried_load |-> _nlp = "None", raised |-> FALSE,
                         backend |-> IF ready /\ tokenize = "ok" THEN "nltk" ELSE "regex",
                         sentences |-> IF ready /\ tokenize = "ok" THEN <<>>
                                       ELSE regex_sentences(text)])
    /\ UNCHANGED <<parserVars, clauseVars, scoreVars, serverVars, callVars>>

InitSentences ==
    ParserIdle /\ ClauseIdle /\ ScoreIdle /\ ServerIdle /\ CallsIdle /\ NlpIdle

NextSentences ==
    \E text \in SentenceTexts, first_try \in FirstTry, second_try \in SecondTry,
       nltk_import \in {"ok", "ImportError"}, tokenize \in {"ok", "Exception"} :
        GetSentences(text, first_try, second_try, nltk_import, tokenize)

SpecSentences == InitSentences /\ [][NextSentences]_vars

-----------------------------------------------------------------------------
(* Properties of the parser *)

\* C1: the clauses split_into_clauses returns carry the clause numbers
\* 1..N in output order, N the number of clauses flushed to the output.
C1_ClauseNumbers ==
    ppc = "done" => \A i \in 1..Len(clauses) : clauses[i].clause_number = i

C1_Witness ==
    /\ ppc = "done"
    /\ Len(clauses) = 3
    /\ clauses[3].clause_number = 3
    /\ clauses[1].heading = "Preamble"

-----------------------------------------------------------------------------
(* Properties of one clause *)

\* the level an escalating rule raises to; "LOW" for the three flag-only rules
RuleTarget(r, lower) ==
    CASE r \in {1, 4} -> "HIGH"
      [] r = 3 -> IF Contains(lower, "unlimited") \/ Contains(lower, "all claims")
                  THEN "HIGH" ELSE "MEDIUM"
      [] r \in {5, 9, 11} -> "LOW"
      [] OTHER -> "MEDIUM"

Maximum(S) == CHOOSE x \in S : \A y \in S : y <= x

\* the maximum of LOW and the targets of the rules that fire on lower
MaxTarget(lower) ==
    Levels[Maximum({1} \cup {LevelIndex(RuleTarget(r, lower)) :
                                r \in {q \in 1..NumRules : RuleFires(q, lower)}})]

\* the orders the rules are tried in: the source order with any two rules
\* exchanged, the source order rotated, and the source order reversed
RuleOrders ==
    {[k \in 1..NumRules |-> IF k = i THEN j ELSE IF k = j THEN i ELSE k] :
        i \in 1..NumRules, j \in 1..NumRules}
    \cup {[k \in 1..NumRules |-> ((k + d - 1) % NumRules) + 1] : d \in 1..NumRules}
    \cup {[k \in 1..NumRules |-> NumRules + 1 - k]}

\* the level after the rules order[k..] are applied to level
RECURSIVE LevelInOrder(_, _, _, _, _)
LevelInOrder(order, fired, lower, k, level) ==
    IF k > NumRules THEN level
    ELSE LevelInOrder(order, fired, lower, k + 1,
                      IF fired[order[k]] THEN RuleRisk(order[k], lower, level) ELSE level)

OrderIndependent(lower, intent, final) ==
    LET fired == <<RuleFires(1, lower), RuleFires(2, lower), RuleFires(3, lower),
                   RuleFires(4, lower), RuleFires(5, lower), RuleFires(6, lower),
                   RuleFires(7, lower), RuleFires(8, lower), RuleFires(9, lower),
                   RuleFires(10, lower), RuleFires(11, lower), RuleFires(12, lower)>>
    IN  \A order \in RuleOrders :
            Bump(intent, LevelInOrder(order, fired, lower, 1, "LOW")) = final

\* C2: from one rule of clause_risk_level to the next the level never goes
\* down; when the last rule is done the level is the maximum of LOW and the
\* targets of the escalating rules that fired; and the level after the
\* PROHIBITION bump is the one every order of the rules arrives at.
C2_RiskOrdinalMonotone ==
    [][/\ (cpc = "rules" /\ cpc' = "rules") => LevelIndex(risk') >= LevelIndex(risk)
       /\ (cpc = "rules" /\ cpc' = "templates") =>
              /\ risk = MaxTarget(Lower(FullText(cheading, cbody)))
              /\ OrderIndependent(Lower(FullText(cheading, cbody)), cintent, risk')]_vars

\* the auto-renewal rule has fired on a clause the lock-in rule made HIGH
C2_Witness ==
    /\ cpc = "rules"
    /\ crule = 3
    /\ risk = "HIGH"
    /\ flags = <<"lock_in_or_non_cancellable", "auto_renewal">>

TemplateIndex(id) ==
    CHOOSE i \in 1..Len(STANDARD_CLAUSE_TEMPLATES) : STANDARD_CLAUSE_TEMPLATES[i].id = id

\* C10: clause_similarity_to_templates returns at most 5 matches, each with
\* a score from 0.20 to 1.0 (in hundredths: 20 to 100) and at most 5 matched
\* keywords, in order of non-increasing score, templates of equal score in
\* the order of the template table.
C10_TemplateMatches ==
    cpc \in {"suggest", "done"} =>
        /\ Len(tmatches) <= 5
        /\ \A i \in 1..Len(tmatches) :
              /\ tmatches[i].match_score >= 20
              /\ tmatches[i].match_score <= 100
              /\ Len(tmatches[i].matched_keywords) <= 5
        /\ \A i \in 1..Len(tmatches), j \in 1..Len(tmatches) :
              i < j =>
                /\ tmatches[i].match_score >= tmatches[j].match_score
                /\ tmatches[i].match_score = tmatches[j].match_score =>
                      TemplateIndex(tmatches[i].template_id)
                          < TemplateIndex(tmatches[j].template_id)

\* seven templates match, a later one best; the five kept are the best two,
\* then the earliest declared of those that tie at 0.20
C10_Witness ==
    /\ cpc = "suggest"
    /\ Len(tmatches) = 5
    /\ tmatches[1].template_id = "warranty"
    /\ tmatches[1].match_score = 67
    /\ tmatches[2].template_id = "payment"
    /\ tmatches[3].template_id = "term_notice"
    /\ tmatches[3].match_score = 20
    /\ tmatches[5].match_score = 20

-----------------------------------------------------------------------------
(* Properties of the composite score *)

AllAre(rs, l) == rs # <<>> /\ \A i \in 1..Len(rs) : rs[i] = l

\* C3 as stated: a non-empty list of LOW levels only scores 0 and reads
\* "Safe"; a non-empty list of HIGH levels only scores 100 and reads
\* "High risk".
C3_AllLowScoresZero ==
    spc # "idle" =>
        /\ AllAre(clause_risks, "LOW") => score = 0 /\ interpretation = "Safe"
        /\ AllAre(clause_risks, "HIGH") => score = 100 /\ interpretation = "High risk"

\* C3 amended: a non-empty list of LOW levels only scores 16 (the integer
\* part of 1/6 of 100) and reads "Safe"; a non-empty list of HIGH levels
\* only scores 100 and reads "High risk".
C3_BoundaryScores ==
    spc # "idle" =>
        /\ AllAre(clause_risks, "LOW") => score = 16 /\ interpretation = "Safe"
        /\ AllAre(clause_risks, "HIGH") => score = 100 /\ interpretation = "High risk"

C3_Witness ==
    spc = "scored" /\ AllAre(clause_risks, "LOW") /\ Len(clause_risks) = 3 /\ score = 16

\* C4: the score of a list with two entries exchanged equals the score of
\* the list, and the score of a list with one entry raised to the next level
\* is not below the score of the list.
C4_MultisetMonotone ==
    [][/\ spc' = "reordered" => score' = score
       /\ spc' = "raised" => score' >= score]_vars

C4_Witness ==
    /\ spc = "reordered"
    /\ Len(clause_risks) >= 3
    /\ clause_risks[1] = "HIGH"
    /\ clause_risks[Len(clause_risks)] = "LOW"
    /\ score > 16 /\ score < 100

\* the integer part of (mean weight) / 6 * 100, at most 100, in whole numbers
ExactScore(rs) ==
    IF rs = <<>> THEN 0
    ELSE LET q == (100 * SumWeights(rs)) \div (6 * Len(rs))
         IN  IF q > 100 THEN 100 ELSE q

\* C5: the score is the integer part of (mean weight) / 6 * 100 clamped to
\* 0..100, 0 for no clauses, and the interpretation is "Safe" exactly up to
\* 30, "Needs review" exactly from 31 to 60, "High risk" exactly above 60.
C5_TruncatedMeanAndBands ==
    spc # "idle" =>
        /\ score = ExactScore(clause_risks)
        /\ interpretation = "Safe" <=> score <= 30
        /\ interpretation = "Needs review" <=> (30 < score /\ score <= 60)
        /\ interpretation = "High risk" <=> score > 60

-----------------------------------------------------------------------------
(* Properties of the server *)

\* the text analyze_contract works on for a served request
NormalizedText(entry) ==
    normalize_language(entry.contract_text, entry.language, entry.translation)

IsBlank(text) == Strip(text) = ""

Supported(filename) ==
    \E suffix \in {".pdf", ".docx", ".txt"} : EndsWith(Lower(filename), suffix)

\* C6: analyze_contract on the empty string, and on any text without a
\* non-blank line, completes and returns zero clauses, composite score 0,
\* empty parties, dates, amounts and termination conditions, no jurisdiction
\* and no duration, and no ambiguity findings.
C6_BlankTextAnalysis ==
    \A k \in 1..Len(served) :
        (served[k].endpoint = "/analyze" /\ IsBlank(served[k].contract_text)) =>
            /\ served[k].status = 200
            /\ Len(served[k].result) = 1
            /\ LET result == served[k].result[1]
                   entities == result.s3_entity_and_attribute_extraction
               IN  /\ result.s2_structured_clause_extraction_json.clauses = <<>>
                   /\ result.s4_clause_by_clause_explanation_table = <<>>
                   /\ result.s5_risk_analysis_and_flags.clause_risk_table = <<>>
                   /\ result.s7_contract_risk_score_summary.composite_risk_score_0_to_100 = 0
                   /\ entities.parties = <<>>
                   /\ entities.dates_and_duration.dates_raw = <<>>
                   /\ entities.dates_and_duration.duration_text = <<>>
                   /\ entities.financials.amounts_mentions = <<>>
                   /\ entities.termination_conditions = <<>>
                   /\ entities.jurisdiction_or_governing_law = <<>>
                   /\ result.s5_risk_analysis_and_flags.ambiguity_flags = <<>>

C6_Witness ==
    \E k \in 1..Len(served) :
        /\ served[k].endpoint = "/analyze"
        /\ served[k].contract_text = " \n\t "
        /\ Len(served[k].result) = 1
        /\ served[k].result[1].s7_contract_risk_score_summary.interpretation = "Safe"

\* C7: in every result, a clause whose text triggers the lock-in rule is at
\* HIGH with the flag lock_in_or_non_cancellable, and carries the flag
\* unilateral_termination as well when that rule fires on it; the result for
\* the payment and lock-in contract has exactly 2 clauses, the first of them
\* with intent OBLIGATION, risk LOW and no flags.
C7_LockInStaysHigh ==
    \A k \in 1..Len(served) :
        served[k].status = 200 =>
            LET result == served[k].result[1]
                parsed == result.s2_structured_clause_extraction_json.clauses
                table == result.s4_clause_by_clause_explanation_table
                rows == result.s5_risk_analysis_and_flags.clause_risk_table
            IN  /\ Len(rows) = Len(parsed)
                /\ \A i \in 1..Len(parsed) :
                      LET lower == Lower(FullText(parsed[i].heading, parsed[i].body))
                      IN  RuleFires(1, lower) =>
                              /\ rows[i].risk_level = "HIGH"
                              /\ InSeq("lock_in_or_non_cancellable", rows[i].flags)
                              /\ RuleFires(10, lower) =>
                                    InSeq("unilateral_termination", rows[i].flags)
                /\ NormalizedText(served[k]) = PaymentAndLockIn =>
                      /\ Len(parsed) = 2
                      /\ table[1].intent = "OBLIGATION"
                      /\ rows[1].risk_level = "LOW"
                      /\ rows[1].flags = <<>>

C7_Witness ==
    \E k \in 1..Len(served) :
        /\ served[k].status = 200
        /\ served[k].contract_text = PaymentAndLockIn
        /\ LET rows == served[k].result[1].s5_risk_analysis_and_flags.clause_risk_table
           IN  /\ Len(rows) = 2
               /\ rows[2].risk_level = "HIGH"
               /\ rows[2].flags = <<"lock_in_or_non_cancellable", "unilateral_termination">>

\* C8: two served analyses with the same contract_text, language and
\* business_role, and the same text from the translator, have equal results
\* in all ten sections.
C8_Deterministic ==
    \A j, k \in 1..Len(served) :
        (/\ served[j].status = 200 /\ served[k].status = 200
         /\ served[j].contract_text = served[k].contract_text
         /\ served[j].language = served[k].language
         /\ served[j].business_role = served[k].business_role
         /\ served[j].translation = served[k].translation)
            => served[j].result = served[k].result

\* C9: a request whose text is empty or whitespace-only, or whose file has
\* an unsupported format, is answered with a rejection and a reason and
\* without a result, at both endpoints, and the audit file holds no record
\* of it.
C9_BlankInputRejected ==
    /\ \A k \in 1..Len(served) :
          (\/ IsBlank(served[k].contract_text)
           \/ (served[k].endpoint = "/analyze/file" /\ ~Supported(served[k].filename))) =>
              /\ served[k].status = 400
              /\ served[k].detail # <<>>
              /\ served[k].result = <<>>
    /\ Len(audit_file) <= Cardinality({k \in 1..Len(served) :
                                          ~IsBlank(served[k].contract_text)})

-----------------------------------------------------------------------------
(* Properties of the renegotiation suggestions *)

\* the remediation sentence of a flag, none for a flag that has no sentence
SentenceOf(flag) ==
    LET hit == SelectSeq(Remediation, LAMBDA e : e[1] = flag)
    IN  [i \in 1..Len(hit) |-> hit[i][2]]

\* the sentences of the flags fl, flag by flag
RECURSIVE SentencesInFlagOrder(_)
SentencesInFlagOrder(fl) ==
    IF fl = <<>> THEN <<>> ELSE SentenceOf(Head(fl)) \o SentencesInFlagOrder(Tail(fl))

RuleOf(flag) == CHOOSE r \in 1..NumRules : RuleFlag[r] = flag

\* C11: a clause gets a renegotiation suggestion only if its risk level is
\* MEDIUM or HIGH and it has flags; the flags are listed in the order
\* clause_risk_level checks them, and the suggested change is the remediation
\* sentences of those flags, in that order, joined by single spaces.
C11_SuggestionFollowsFlags ==
    cpc = "done" =>
        /\ \A i \in 1..Len(flags), j \in 1..Len(flags) :
              i < j => RuleOf(flags[i]) < RuleOf(flags[j])
        /\ csuggestion # <<>> =>
              /\ risk \in {"MEDIUM", "HIGH"}
              /\ flags # <<>>
              /\ csuggestion = <<Join(" ", SentencesInFlagOrder(flags))>>

\* two flags that have a sentence each
C11_Witness ==
    /\ cpc = "done"
    /\ risk = "MEDIUM"
    /\ flags = <<"indemnity", "unilateral_termination">>
    /\ csuggestion # <<>>

-----------------------------------------------------------------------------
(* Properties of an extended clause *)

StartsWith(s, prefix) == Len(s) >= Len(prefix) /\ SubSeq(s, 1, Len(prefix)) = prefix

\* C12: when clause_risk_level reports HIGH for the text of a clause, it
\* reports HIGH again for that text with more text appended, the intent
\* being classified anew on the longer text.
C12_HighSurvivesAppending ==
    [][(cpc = "done" /\ cpc' = "extended" /\ risk = "HIGH") =>
          /\ StartsWith(FullText(cheading', cbody'), FullText(cheading, cbody))
          /\ cintent' = classify_clause_intent(FullText(cheading', cbody'))
          /\ risk' = "HIGH"]_vars

\* a HIGH clause with a one-sided termination right, extended by the
\* sentence that withdraws that flag and turns the intent
C12_Witness ==
    /\ cpc = "extended"
    /\ cbody = "Lock-in period of 12 months. Company may terminate at will."
                  \o "\nStaff must not disclose."
    /\ cintent = "PROHIBITION"
    /\ risk = "HIGH"

-----------------------------------------------------------------------------
(* Properties of calls in flight together *)

\* what analyze_contract returns for text when it runs alone
Alone(text) ==
    With(split_into_clauses(normalize_language(text, <<>>, text)), LAMBDA parsed :
    With(MapSeq(parsed, ClauseEntry), LAMBDA entries :
    With([i \in 1..Len(entries) |-> entries[i].risk_level], LAMBDA levels :
        [clauses |-> parsed,
         intents |-> [i \in 1..Len(entries) |-> entries[i].intent],
         risk_levels |-> levels,
         flags |-> [i \in 1..Len(entries) |-> entries[i].flags],
         template_matches |-> [i \in 1..Len(entries) |-> entries[i].template_matches],
         score |-> contract_level_risk_score(levels),
         suggestions |-> Flatten(MapSeq(entries, Renegotiation))])))

AloneTable == [text \in CallDocs |-> Alone(text)]

\* C13: however the steps of two calls of analyze_contract interleave, the
\* locals of a call change only while that call is in flight and are empty
\* before it and after it, and each call returns the clauses, intents, risk
\* levels, flags, score and suggestions it returns for its document when it
\* runs alone.
C13_CallsIndependent ==
    /\ [](\A c \in Calls :
            /\ calls[c].result # <<>> =>
                  calls[c].result[1] = AloneTable[calls[c].contract_text]
            /\ calls[c].pc \in {"idle", "done"} => frames[FrameOf(c)] = NoLocals)
    /\ [][\A c \in Calls :
            frames'[FrameOf(c)] # frames[FrameOf(c)] =>
                calls[c].pc # "done" /\ calls'[c].pc # "idle"]_vars

\* the first call has returned while the second, on another document, is
\* in its clause loop
C13_Witness ==
    /\ calls["first"].result # <<>>
    /\ Len(calls["first"].result[1].suggestions) = 1
    /\ calls["second"].pc = "clauses"
    /\ frames["second"].k = 2
    /\ calls["second"].contract_text # calls["first"].contract_text

-----------------------------------------------------------------------------
(* Properties of the audit file *)

\* C14: a request that is answered with a result leaves the audit file as it
\* was with one record appended, the audit log of that result, or, when the
\* write fails, as it was; either way the response carries the result
\* analyze_contract returned.  No other step touches the audit file.
C14_AuditAppendOnly ==
    [][IF Len(served') = Len(served) + 1 /\ served'[Len(served')].result # <<>>
       THEN LET answer == served'[Len(served')]
            IN  /\ answer.status = 200
                /\ answer.result[1] = analyze_contract(answer.contract_text, answer.language,
                                                       answer.business_role,
                                                       answer.translation, clock)
                /\ audit_file' = IF answer.write_failed
                                 THEN audit_file
                                 ELSE Append(audit_file, answer.result[1].s10_audit_log)
       ELSE audit_file' = audit_file]_vars

\* the write failed for the first request and succeeded for the second
C14_Witness ==
    /\ Len(served) = 2
    /\ served[1].result # <<>>
    /\ served[1].write_failed
    /\ served[2].endpoint = "/analyze/file"
    /\ served[2].result # <<>>
    /\ ~served[2].write_failed
    /\ audit_file = <<served[2].result[1].s10_audit_log>>

-----------------------------------------------------------------------------
(* Properties of one line of the parser *)

\* the sub-clauses subs with text added to the body of the last of them
WithLastBody(subs, text) ==
    [i \in 1..Len(subs) |->
        IF i = Len(subs)
        THEN [heading |-> subs[i].heading,
              body |-> subs[i].body \o (IF subs[i].body # "" THEN "\n" ELSE "") \o text]
        ELSE subs[i]]

\* C15: a turn of the parser's loop on a line that is not blank does one of
\* three things, the first that applies.  A sub-level line, while a clause is
\* open, adds a sub-clause with that line as heading and an empty body and
\* leaves the output and the open clause alone.  A top-level line puts the
\* open clause, if any, with its sub-clauses on the output and opens a
\* clause with that line as heading, an empty body and no sub-clauses.  Any
\* other line opens a Preamble clause with that line as body if no clause is
\* open, else goes to the body of the last sub-clause if there is one, else
\* to the body of the open clause.  A blank line changes nothing.
C15_LinePriority ==
    [][(ppc = "loop" /\ pidx' = pidx + 1) =>
          LET stripped == Strip(plines[pidx])
          IN  IF stripped = ""
              THEN UNCHANGED <<clauses, current, current_subs>>
              ELSE IF Matches(sub_level, stripped) /\ current # <<>>
              THEN /\ current_subs' = Append(current_subs, [heading |-> stripped, body |-> ""])
                   /\ UNCHANGED <<clauses, current>>
              ELSE IF Matches(top_level, stripped)
              THEN /\ clauses' = IF current = <<>> THEN clauses
                                 ELSE Append(clauses, [heading |-> current[1].heading,
                                                       body |-> current[1].body,
                                                       sub_clauses |-> current_subs])
                   /\ current' = <<[heading |-> stripped, body |-> ""]>>
                   /\ current_subs' = <<>>
              ELSE IF current = <<>>
              THEN /\ current' = <<[heading |-> "Preamble", body |-> stripped]>>
                   /\ current_subs' = <<>>
                   /\ UNCHANGED clauses
              ELSE IF current_subs # <<>>
              THEN /\ current_subs' = WithLastBody(current_subs, stripped)
                   /\ UNCHANGED <<clauses, current>>
              ELSE /\ current' = <<[heading |-> current[1].heading,
                                    body |-> current[1].body
                                             \o (IF current[1].body # "" THEN "\n" ELSE "")
                                             \o stripped]>>
                   /\ UNCHANGED <<clauses, current_subs>>]_vars

\* a plain line has gone to the second of two sub-clauses
C15_Witness ==
    /\ ppc = "loop"
    /\ pidx = 5
    /\ clauses = <<>>
    /\ current = <<[heading |-> "1. Fees", body |-> ""]>>
    /\ current_subs = <<[heading |-> "2.1 Sub item", body |-> ""],
                        [heading |-> "3.2.1) deep", body |-> "body text"]>>

-----------------------------------------------------------------------------
(* Properties of the clause list *)

\* the lines of the input that are top-level headings
HeadingLines(lines) == {i \in 1..Len(lines) : Matches(top_level, Strip(lines[i]))}

\* the lines of the input that are not empty
FilledLines(lines) == {i \in 1..Len(lines) : lines[i] # ""}

Minimum(S) == CHOOSE x \in S : \A y \in S : x <= y

\* the input begins, blank lines aside, with a line that is no heading
BeginsPlain(lines) ==
    /\ FilledLines(lines) # {}
    /\ Minimum(FilledLines(lines)) \notin HeadingLines(lines)

\* C16: split_into_clauses returns as many clauses as the input has
\* top-level heading lines, and one more if the first line that is not empty
\* is no top-level heading; at most one clause has the heading "Preamble",
\* and that one is clause number 1.
C16_ClauseCount ==
    ppc = "done" =>
        /\ Len(clauses) = Cardinality(HeadingLines(plines))
                            + (IF BeginsPlain(plines) THEN 1 ELSE 0)
        /\ \A i \in 1..Len(clauses) :
              clauses[i].heading = "Preamble" => i = 1 /\ clauses[i].clause_number = 1

\* a sub-level line, then two headings: a Preamble and two clauses
C16_Witness ==
    /\ ppc = "done"
    /\ plines = <<"2.1 Sub item", "1. Fees", "NOTICES">>
    /\ Len(clauses) = 3
    /\ clauses[1].heading = "Preamble"
    /\ clauses[1].body = "2.1 Sub item"

-----------------------------------------------------------------------------
(* Properties of the sub-clauses *)

\* the lines of the input that are sub-level lines
SubLevelLines(lines) == {j \in 1..Len(lines) : Matches(sub_level, Strip(lines[j]))}

\* the members of a set of numbers, smallest first
Ascending(S) ==
    [k \in 1..Cardinality(S) |-> CHOOSE x \in S : Cardinality({y \in S : y < x}) = k - 1]

\* the lines that open a clause: the headings, and the first filled line
\* when it is no heading
OpeningLines(lines) ==
    Ascending(HeadingLines(lines)
              \cup (IF BeginsPlain(lines) THEN {Minimum(FilledLines(lines))} ELSE {}))

\* the sub-level lines among lines[lo..hi], stripped, in order
SubHeadings(lines, lo, hi) ==
    LET at == SelectSeq(Range(lo, hi), LAMBDA j : j \in SubLevelLines(lines))
    IN  [k \in 1..Len(at) |-> Strip(lines[at[k]])]

\* the number of sub-clauses in all the clauses cs
RECURSIVE SubClauseCount(_)
SubClauseCount(cs) ==
    IF cs = <<>> THEN 0 ELSE Len(Head(cs).sub_clauses) + SubClauseCount(Tail(cs))

\* C17 as claimed: a sub-level line before the first top-level heading never
\* makes a sub-clause, so the sub-clauses are as many as the sub-level lines
\* that follow a heading and the Preamble has none.
C17_NoSubClauseBeforeHeading ==
    ppc = "done" =>
        /\ SubClauseCount(clauses)
              = Cardinality({j \in SubLevelLines(plines) :
                                \E h \in HeadingLines(plines) : h < j})
        /\ \A i \in 1..Len(clauses) :
              clauses[i].heading = "Preamble" => clauses[i].sub_clauses = <<>>

\* C17: a sub-level line makes a sub-clause of the clause that is open when
\* it is read, the Preamble included; it is taken as plain text only when no
\* clause is open, and then it opens the Preamble.  So the sub-clauses of a
\* clause are the sub-level lines between the line that opened it and the
\* next top-level heading, in order.
C17_SubClauseOfOpenClause ==
    ppc = "done" =>
        LET opening == OpeningLines(plines)
        IN  /\ Len(clauses) = Len(opening)
            /\ \A i \in 1..Len(clauses) :
                  LET last == IF i < Len(opening) THEN opening[i + 1] - 1 ELSE Len(plines)
                      subs == clauses[i].sub_clauses
                  IN  [k \in 1..Len(subs) |-> subs[k].heading]
                          = SubHeadings(plines, opening[i] + 1, last)

\* a sub-level line opens the Preamble and the next becomes its sub-clause
C17_Witness ==
    /\ ppc = "done"
    /\ plines = <<"2.1 Sub item", "3.2.1) deep", "1. Fees", "2.1 Sub item">>
    /\ Len(clauses) = 2
    /\ clauses[1].heading = "Preamble"
    /\ clauses[1].body = "2.1 Sub item"
    /\ clauses[1].sub_clauses = <<[heading |-> "3.2.1) deep", body |-> ""]>>
    /\ clauses[2].sub_clauses = <<[heading |-> "2.1 Sub item", body |-> ""]>>

-----------------------------------------------------------------------------
(* Properties of the intent of a clause *)

\* the intents that have markers, highest priority first
IntentMarkers ==
    << <<"PROHIBITION", {"shall not", "must not", "prohibited", "no party shall"}>>,
       <<"OBLIGATION", {"shall", "must", "agrees to", "undertakes to"}>>,
       <<"RIGHT", {"may", "entitled to", "reserves the right"}>>,
       <<"CONDITIONAL", {"subject to", "provided that", "if ", "in the event that"}>> >>

\* the intents of which the lower-cased text holds a marker, by priority
MarkedIntents(lower) ==
    {i \in 1..Len(IntentMarkers) : \E k \in IntentMarkers[i][2] : Contains(lower, k)}

\* C18: the intent of a clause is the one of highest priority, PROHIBITION
\* over OBLIGATION over RIGHT over CONDITIONAL, of which its text holds a
\* marker, and INFORMATIONAL when it holds none; a text with a prohibition
\* marker is PROHIBITION whatever other markers it holds.
C18_IntentPriority ==
    ((cpc = "rules" /\ crule = 1) \/ cpc = "extended") =>
        LET marked == MarkedIntents(Lower(FullText(cheading, cbody)))
        IN  /\ cintent = (IF marked = {} THEN "INFORMATIONAL"
                          ELSE IntentMarkers[Minimum(marked)][1])
            /\ 1 \in marked => cintent = "PROHIBITION"
            /\ cintent \in {"PROHIBITION", "OBLIGATION", "RIGHT", "CONDITIONAL",
                             "INFORMATIONAL"}

\* a clause that holds a permissive and a prohibition marker
C18_Witness ==
    /\ cpc = "rules"
    /\ crule = 1
    /\ cbody = "Company may terminate at will. Staff must not disclose."
    /\ cintent = "PROHIBITION"

-----------------------------------------------------------------------------
(* Properties of the PROHIBITION bump *)

\* the flags of the rules that leave the level alone
FlagOnly == {"limitation_of_liability", "late_payment_interest", "confidentiality"}

\* C19: the bump at the end of clause_risk_level raises LOW to MEDIUM for a
\* PROHIBITION and changes the level in no other case, so a PROHIBITION is
\* never reported LOW; a clause of another intent on which no rule but
\* flag-only rules fired is reported LOW, with the flags of those rules.
C19_ProhibitionBump ==
    /\ [][(cpc = "rules" /\ cpc' = "templates") =>
             /\ risk' = (IF cintent = "PROHIBITION" /\ risk = "LOW" THEN "MEDIUM" ELSE risk)
             /\ flags' = flags]_vars
    /\ [](cpc \in {"templates", "suggest", "done", "extended"} =>
             /\ cintent = "PROHIBITION" => risk # "LOW"
             /\ (cintent # "PROHIBITION" /\ \A i \in 1..Len(flags) : flags[i] \in FlagOnly) =>
                    /\ risk = "LOW"
                    /\ flags = SelectSeq(RuleFlag,
                                  LAMBDA f : RuleFires(RuleOf(f),
                                                       Lower(FullText(cheading, cbody)))))

\* a prohibition on which only the confidentiality rule fired
C19_Witness ==
    /\ cpc = "templates"
    /\ cbody = "Keep it confidential. Staff must not disclose."
    /\ cintent = "PROHIBITION"
    /\ flags = <<"confidentiality">>
    /\ risk = "MEDIUM"

-----------------------------------------------------------------------------
(* Properties of the sentence tokenizer *)

\* C20 as claimed: no call of get_sentences raises, and no call after the
\* first goes into the load of the model again.
C20_LoadedAtMostOnce ==
    \A i \in 1..Len(sentence_calls) :
        /\ ~sentence_calls[i].raised
        /\ i > 1 => ~sentence_calls[i].tried_load

-----------------------------------------------------------------------------
(* Properties of the text the parser keeps *)

\* the lines of a body: body.split("\n"), and none for an empty body
BodyLines(body) == IF body = "" THEN <<>> ELSE SplitLines(body)

\* a list of clauses read clause by clause: heading, body lines, then the
\* heading and the body lines of each sub-clause
Reading(cs) ==
    Flatten([i \in 1..Len(cs) |->
        <<cs[i].heading>> \o BodyLines(cs[i].body)
            \o Flatten([k \in 1..Len(cs[i].sub_clauses) |->
                  <<cs[i].sub_clauses[k].heading>>
                      \o BodyLines(cs[i].sub_clauses[k].body)])])

\* the first n lines of the input that are not blank, stripped, in order
FilledPrefix(lines, n) ==
    LET at == SelectSeq(Range(1, n), LAMBDA j : j \in FilledLines(lines))
    IN  [k \in 1..Len(at) |-> Strip(lines[at[k]])]

\* the clauses, heading and text only, as they would be returned if the
\* input ended at the line the parser has reached
ClausesSoFar ==
    LET cs == flush_current([clauses |-> clauses, current |-> current,
                             subs |-> current_subs]).clauses
    IN  [i \in 1..Len(cs) |-> [heading |-> cs[i].heading, body |-> cs[i].body,
                               sub_clauses |-> cs[i].sub_clauses]]

\* the lines the parser has consumed
LinesRead == IF ppc = "done" THEN Len(plines) ELSE IF ppc = "loop" THEN pidx - 1 ELSE 0

\* C21 as claimed: the output read clause by clause is exactly the lines of
\* the input that are not blank, stripped, in document order, and the blank
\* lines change nothing.
C21_OutputIsTheInputLines ==
    /\ Reading(ClausesSoFar) = FilledPrefix(plines, LinesRead)
    /\ ppc = "done" =>
          clauses = split_into_clauses(Join("\n", SelectSeq(plines, LAMBDA l : l # "")))

\* C21: the output read clause by clause is the lines of the input that are
\* not blank, stripped, in document order, after the heading "Preamble" that
\* the parser makes up when the first of them is no top-level heading; the
\* blank lines change nothing.
C21_OutputIsPreambleAndInputLines ==
    /\ Reading(ClausesSoFar)
          = (IF BeginsPlain(SubSeq(plines, 1, LinesRead)) THEN <<"Preamble">> ELSE <<>>)
                \o FilledPrefix(plines, LinesRead)
    /\ ppc = "done" =>
          clauses = split_into_clauses(Join("\n", SelectSeq(plines, LAMBDA l : l # "")))

\* a plain line, a blank line, a heading and a sub-level line: the output
\* reads "Preamble" and then the three lines
C21_Witness ==
    /\ ppc = "done"
    /\ plines = <<"  body text", "", "1. Fees", "2.1 Sub item">>
    /\ Reading(ClausesSoFar) = <<"Preamble", "body text", "1. Fees", "2.1 Sub item">>

-----------------------------------------------------------------------------
(* Properties of the text of the sub-clauses *)

\* a list of clauses without what their sub_clauses hold
SubClausesErased(cs) ==
    [i \in 1..Len(cs) |-> [clause_number |-> cs[i].clause_number,
                           heading |-> cs[i].heading,
                           body |-> cs[i].body]]

\* what a result says of the clauses: all of it but the clause list
Classification(result) ==
    [intents |-> result.intents,
     risk_levels |-> result.risk_levels,
     flags |-> result.flags,
     template_matches |-> result.template_matches,
     score |-> result.score,
     suggestions |-> result.suggestions]

\* the calls that have returned for documents that differ, and only in the
\* text of their sub-clauses
DifferInSubClausesOnly(c, d) ==
    /\ calls[c].result # <<>>
    /\ calls[d].result # <<>>
    /\ calls[c].result[1].clauses # calls[d].result[1].clauses
    /\ SubClausesErased(calls[c].result[1].clauses)
          = SubClausesErased(calls[d].result[1].clauses)

\* C22: what the sub_clauses of a clause hold has no part in the intent, the
\* risk level, the flags, the template matches or the suggestion of the
\* clause: two documents whose clauses differ only in sub-clause text get
\* the same classification clause by clause and the same composite score.
C22_SubClauseTextIsInert ==
    \A c, d \in Calls :
        DifferInSubClausesOnly(c, d) =>
            Classification(calls[c].result[1]) = Classification(calls[d].result[1])

\* one call had a sub-clause on liability, the other a sub-clause on
\* termination and lock-in with two body lines: both report one LOW clause
C22_Witness ==
    /\ DifferInSubClausesOnly("first", "second")
    /\ calls["first"].result[1].clauses[1].sub_clauses
          = <<[heading |-> "1.1 Cap", body |-> "Unlimited liability applies."]>>
    /\ calls["second"].result[1].clauses[1].sub_clauses
          = <<[heading |-> "2.3) Exit",
               body |-> "Company may terminate at any time.\nLock-in period of 5 years."]>>
    /\ calls["first"].result[1].risk_levels = <<"LOW">>
    /\ calls["second"].result[1].risk_levels = <<"LOW">>

-----------------------------------------------------------------------------
(* Properties of the renegotiation entries *)

\* the flags that have no remediation sentence
Unremedied ==
    {RuleFlag[r] : r \in 1..NumRules}
        \ {Remediation[i][1] : i \in 1..Len(Remediation)}

\* the entries the clause at hand adds to renegotiations: lines 428-440
EntriesOfClause ==
    Renegotiation([clause_number |-> 1, heading |-> cheading,
                   risk_level |-> risk, flags |-> flags])

\* C23: a clause reported HIGH has an entry in the renegotiation
\* suggestions; an entry there is has a suggested_change that is not empty,
\* the suggestion made for the clause; a MEDIUM clause that has no flags, or
\* only flags without a remediation sentence, has no entry.
C23_HighIsAlwaysRenegotiated ==
    cpc \in {"done", "extended"} =>
        /\ Len(EntriesOfClause) <= 1
        /\ risk = "HIGH" => Len(EntriesOfClause) = 1
        /\ \A i \in 1..Len(EntriesOfClause) :
              /\ EntriesOfClause[i].suggested_change # ""
              /\ csuggestion = <<EntriesOfClause[i].suggested_change>>
              /\ EntriesOfClause[i].risk_level = risk
        /\ (risk = "MEDIUM" /\ \A i \in 1..Len(flags) : flags[i] \in Unremedied) =>
              EntriesOfClause = <<>> /\ csuggestion = <<>>

\* a HIGH clause with a flag that has a sentence and one that has none
C23_Witness ==
    /\ cpc = "done"
    /\ risk = "HIGH"
    /\ flags = <<"lock_in_or_non_cancellable", "confidentiality">>
    /\ Len(EntriesOfClause) = 1
    /\ EntriesOfClause[1].suggested_change = Remediation[1][2]

-----------------------------------------------------------------------------
(* Properties of the range of the composite score *)

\* C24 as claimed: the score of a list that is not empty lies in 16..100 and
\* is 16 exactly when every level is LOW; the score is 0 only for the empty
\* list, and every score is a whole number in 0..100.
C24_SixteenOnlyWhenAllLow ==
    spc # "idle" =>
        /\ score \in 0..100
        /\ score = 0 => clause_risks = <<>>
        /\ clause_risks # <<>> =>
              /\ score \in 16..100
              /\ score = 16 <=> AllAre(clause_risks, "LOW")

\* C24: the score of a list that is not empty lies in 16..100; it is 16 when
\* every level is LOW, and a list of at most 100 levels scores 16 only then,
\* while a longer list scores 16 also with levels above LOW in it; the score
\* is 0 only for the empty list, and every score is a whole number in 0..100.
C24_ScoreRange ==
    spc # "idle" =>
        /\ score \in 0..100
        /\ score = 0 => clause_risks = <<>>
        /\ clause_risks # <<>> =>
              /\ score \in 16..100
              /\ AllAre(clause_risks, "LOW") => score = 16
              /\ score = 16 => AllAre(clause_risks, "LOW") \/ Len(clause_risks) > 100

\* ManyLow LOW clauses and one MEDIUM clause score 16
C24_Witness ==
    /\ spc = "scored"
    /\ clause_risks = Run("LOW", ManyLow) \o <<"MEDIUM">>
    /\ score = 16

====
